---- MODULE Spec2Model ----
(***************************************************************************)
(* A model of the tick decision pipeline of src/my-bot/bot.py (Bot v8):    *)
(* world-state indexing, threat map, facility timing, site and builder     *)
(* selection, production, combat/defence, splits, emergency merge and the  *)
(* movement phase, run under a cooperative time budget.                    *)
(*                                                                         *)
(* A Point is a pair <<x, y>>.  A Python dict whose iteration order is     *)
(* used is a sequence of <<key, value>> pairs in insertion order; a dict   *)
(* that is only looked up is a function on its key set.                    *)
(***************************************************************************)
EXTENDS Integers, Sequences, FiniteSets, TLC

VARIABLES
  pc,                          \* position of the engine/bot: which step runs next
  world,                       \* the snapshot handed to get_next_move (game_message)
  tick_count,                  \* Bot._tick_count
  map_type,                    \* Bot._map_type
  map_type_cache,              \* ImprovedMapAnalysis._map_type_cache
  top_tiles_cache,             \* Bot._top_tiles_cache / _GLOBAL_TOP_TILES_CACHE
  planned_sites,               \* Bot._planned_sites
  first_spawner_tick,          \* Bot._first_spawner_tick
  total_spore_count,           \* Bot._total_spore_count
  last_territory_count,        \* ExpansionEnhancement._last_territory_count
  stagnation_ticks,            \* ExpansionEnhancement._stagnation_ticks
  cached_my_tile_count,        \* Bot._cached_my_tile_count
  cached_nutrient_generation,  \* Bot._cached_nutrient_generation
  last_full_scan_tick,         \* Bot._last_full_scan_tick
  lane_targets_store,          \* LanePlanner._lane_targets
  lane_by_spore_id,            \* LanePlanner._lane_by_spore_id
  pos_hist_by_id,              \* Bot._pos_hist_by_id
  threat_map,                  \* get_next_move: threat_map
  is_stagnant,                 \* get_next_move: is_stagnant
  lane_targets,                \* get_next_move: lane_targets
  used_spores,                 \* get_next_move: used_spores
  used_spawners,               \* get_next_move: used_spawners
  builder_ids,                 \* get_next_move: builder_ids
  hunter_ids,                  \* get_next_move: hunter_ids
  defender_ids,                \* get_next_move: defender_ids
  actions,                     \* get_next_move: actions (the list returned)
  time_bound,                  \* what the checkpoints passed so far allow time_left() to be
  cut_at,                      \* the phase boundary whose checkpoint found the budget exhausted
  fn_in,                       \* arguments of the function a function-level specification applies
  fn_out,                      \* its result
  unchanged_since              \* first tick of the current run of ticks with the same owned-tile count

persistent == <<tick_count, map_type, map_type_cache, top_tiles_cache,
                planned_sites, first_spawner_tick, total_spore_count,
                lane_targets_store, lane_by_spore_id, pos_hist_by_id>>
territory == <<last_territory_count, stagnation_ticks, cached_my_tile_count,
               cached_nutrient_generation, last_full_scan_tick>>
locals == <<threat_map, is_stagnant, lane_targets, used_spores, used_spawners,
            builder_ids, hunter_ids, defender_ids, actions, time_bound, cut_at>>
fnvars == <<fn_in, fn_out>>
vars == <<pc, world, persistent, territory, locals, fnvars, unchanged_since>>

\* Python's None, for a value that is otherwise a string, an integer, a Point,
\* a snapshot
None == "None"
NoneInt == -1
NoPoint == <<-1, -1>>
NoWorld == [tick |-> 0]

----------------------------------------------------------------------------
(* Bounds of the model.                                                    *)

\* grid dimensions of the modelled match
Width == 4
Height == 3
\* largest enemy biomass and number of enemy cells drawn for _build_threat_map
FnMaxEnemyBio == 2
FnMaxEnemies == 2
\* bounds of the arguments drawn for should_build_first_spawner_v8
FnMaxTick == 20
FnMaxCount == 2
FnMaxBiomass == 7
FnMaxCost == 5
\* last tick and largest owned-tile count of the stagnation specification
StagMaxTick == 85
StagMaxTiles == 3

----------------------------------------------------------------------------
(* Basic helpers (bot.py 30-54) and Python built-ins.                      *)

DIRS == << <<0, -1>>, <<0, 1>>, <<-1, 0>>, <<1, 0>> >>

in_bounds(x, y, width, height) == 0 <= x /\ x < width /\ 0 <= y /\ y < height

Abs(n) == IF n < 0 THEN -n ELSE n

manhattan(a, b) == Abs(a[1] - b[1]) + Abs(a[2] - b[2])

Max2(a, b) == IF a >= b THEN a ELSE b
Min2(a, b) == IF a <= b THEN a ELSE b

\* the largest element of a non-empty finite set of integers
SetMax(S) == CHOOSE m \in S : \A n \in S : n <= m

\* dict.get(key, default) on a dict modelled as a function
Get(d, k, default) == IF k \in DOMAIN d THEN d[k] ELSE default

\* d[k] = v
Put(d, k, v) == [q \in (DOMAIN d) \cup {k} |-> IF q = k THEN v ELSE d[q]]

EmptyDict == [q \in {} |-> 0]

Cells(width, height) == {<<x, y>> : x \in 0..(width - 1), y \in 0..(height - 1)}

----------------------------------------------------------------------------
(* Bot._build_threat_map (bot.py 843-871).                                 *)

\* threat_map[pt] = eb when eb exceeds what is stored (bot.py 858-860, 867-869)
ThreatStepOverwrite(tm, pt, eb) == Put(tm, pt, eb)
ThreatStep(tm, pt, eb) == IF eb > Get(tm, pt, 0) THEN Put(tm, pt, eb) ELSE tm

\* the loop over DIRS for one enemy (bot.py 863-869), from direction i on
RECURSIVE ThreatNeighbours(_, _, _, _, _, _)
ThreatNeighbours(tm, ept, eb, i, width, height) ==
  IF i > Len(DIRS) THEN tm
  ELSE LET nx == ept[1] + DIRS[i][1]
           ny == ept[2] + DIRS[i][2]
           tm2 == IF in_bounds(nx, ny, width, height)
                  THEN ThreatStep(tm, <<nx, ny>>, eb)
                  ELSE tm
       IN ThreatNeighbours(tm2, ept, eb, i + 1, width, height)

\* the loop over enemy_biomass_at.items() (bot.py 856-869), from entry i on
RECURSIVE ThreatLoop(_, _, _, _, _)
ThreatLoop(tm, enemy_biomass_at, i, width, height) ==
  IF i > Len(enemy_biomass_at) THEN tm
  ELSE LET ept == enemy_biomass_at[i][1]
           eb == enemy_biomass_at[i][2]
           tm1 == ThreatStep(tm, ept, eb)
       IN ThreatLoop(ThreatNeighbours(tm1, ept, eb, 1, width, height),
                     enemy_biomass_at, i + 1, width, height)

\* a threat map that marks the enemies' own cells only
ThreatOnEnemyCells(enemy_biomass_at, width, height) ==
  [c \in {enemy_biomass_at[i][1] : i \in 1..Len(enemy_biomass_at)} |->
     enemy_biomass_at[CHOOSE i \in 1..Len(enemy_biomass_at) : enemy_biomass_at[i][1] = c][2]]

build_threat_map(enemy_biomass_at, width, height) ==
  ThreatLoop(EmptyDict, enemy_biomass_at, 1, width, height)

\* Bot._adjacent_enemy_max (bot.py 973-984), enemy_biomass_at as a sequence of pairs
DictSeqGet(d, k, default) ==
  IF \E i \in 1..Len(d) : d[i][1] = k
  THEN d[CHOOSE i \in 1..Len(d) : d[i][1] = k][2]
  ELSE default

adjacent_enemy_max(pt, enemy_biomass_at) ==
  SetMax({0} \cup {DictSeqGet(enemy_biomass_at, <<pt[1] + DIRS[i][1], pt[2] + DIRS[i][2]>>, 0) :
                     i \in 1..Len(DIRS)})

----------------------------------------------------------------------------
(* ImprovedMapAnalysis.should_build_first_spawner_v8 (bot.py 213-284).     *)
(* The result is the triple <<should_build, min_biomass_needed,            *)
(* is_emergency>>.  The local is_emergency of lines 235-239 is computed    *)
(* and never read: every return statement spells its own flag.  The        *)
(* arguments total_spore_count, neutral_count, my_nutrients are not read.  *)

\* a decision whose required biomass is not tied to what the units have
BuildAboveMeans(mtype, tick, actionable_count, max_biomass, next_spawner_cost) ==
  IF actionable_count >= 1 /\ max_biomass >= next_spawner_cost
  THEN <<TRUE, next_spawner_cost + 2, FALSE>> ELSE <<FALSE, 0, FALSE>>

should_build_first_spawner_v8(mtype, tick, actionable_count, max_biomass, next_spawner_cost) ==
  IF mtype = "blocked_small" THEN
    IF tick <= 8 THEN
      IF actionable_count >= 2 /\ max_biomass >= next_spawner_cost + 2
      THEN <<TRUE, next_spawner_cost + 2, FALSE>> ELSE <<FALSE, 0, FALSE>>
    ELSE IF tick <= 15 THEN
      IF actionable_count >= 1 /\ max_biomass >= next_spawner_cost
      THEN <<TRUE, next_spawner_cost, FALSE>> ELSE <<FALSE, 0, FALSE>>
    ELSE
      IF actionable_count >= 1 /\ max_biomass >= Max2(2, next_spawner_cost)
      THEN <<TRUE, Max2(2, next_spawner_cost), TRUE>> ELSE <<FALSE, 0, FALSE>>
  ELSE IF mtype \in {"medium", "large"} THEN
    IF tick <= 5 THEN
      IF actionable_count >= 1 /\ max_biomass >= next_spawner_cost
      THEN <<TRUE, next_spawner_cost, FALSE>> ELSE <<FALSE, 0, FALSE>>
    ELSE IF tick <= 12 THEN
      IF actionable_count >= 1 /\ max_biomass >= Max2(3, next_spawner_cost)
      THEN <<TRUE, Max2(3, next_spawner_cost), FALSE>> ELSE <<FALSE, 0, FALSE>>
    ELSE
      IF actionable_count >= 1 /\ max_biomass >= Max2(2, next_spawner_cost)
      THEN <<TRUE, Max2(2, next_spawner_cost), TRUE>> ELSE <<FALSE, 0, FALSE>>
  ELSE
    IF tick <= 6 THEN
      IF actionable_count >= 2 /\ max_biomass >= next_spawner_cost + 1
      THEN <<TRUE, next_spawner_cost + 1, FALSE>> ELSE <<FALSE, 0, FALSE>>
    ELSE IF tick <= 12 THEN
      IF actionable_count >= 1 /\ max_biomass >= next_spawner_cost
      THEN <<TRUE, next_spawner_cost, FALSE>> ELSE <<FALSE, 0, FALSE>>
    ELSE
      IF actionable_count >= 1 /\ max_biomass >= Max2(2, next_spawner_cost)
      THEN <<TRUE, Max2(2, next_spawner_cost), TRUE>> ELSE <<FALSE, 0, FALSE>>

MapTypes == {"open_rush", "blocked_small", "medium", "large"}

----------------------------------------------------------------------------
(* world.map.nutrientGrid of the modelled match, static for the match:     *)
(* richer towards the far corner, with cells above and below the profit    *)
(* threshold of the combat phase.                                          *)

NutrientGrid == [c \in Cells(Width, Height) |-> 4 * c[1] + 6 * c[2]]

----------------------------------------------------------------------------
(* Territory metrics and stagnation (bot.py 305-319, 918-952).             *)

MyTeamId == 1

\* the full scan of bot.py 934-943: <<my_tile_count, nutrient_generation>>
RECURSIVE SumOver(_, _)
SumOver(S, f) ==
  IF S = {} THEN 0
  ELSE LET c == CHOOSE c \in S : TRUE IN f[c] + SumOver(S \ {c}, f)

FullScan(ownership_grid, nutrients_of, my_team_id) ==
  LET mine == {c \in DOMAIN ownership_grid : ownership_grid[c] = my_team_id}
  IN <<Cardinality(mine), SumOver(mine, nutrients_of)>>

\* Bot._calculate_territory_metrics: <<my_tile_count, nutrient_generation, scanned>>
calculate_territory_metrics(ownership_grid, nutrients_of, my_team_id, tick) ==
  IF tick <= 3 \/ (tick - last_full_scan_tick) >= 5
  THEN LET r == FullScan(ownership_grid, nutrients_of, my_team_id) IN <<r[1], r[2], TRUE>>
  ELSE <<cached_my_tile_count, cached_nutrient_generation, FALSE>>

CheckInterval == 20
StagnationThreshold == 40

\* ExpansionEnhancement.detect_expansion_stagnation:
\* <<_stagnation_ticks', _last_territory_count', result>>
StagnationAlwaysAdds(current_territory, tick) ==
  LET st == IF tick % CheckInterval = 0 THEN stagnation_ticks + CheckInterval
            ELSE stagnation_ticks
      lt == IF tick % CheckInterval = 0 THEN current_territory ELSE last_territory_count
  IN <<st, lt, st >= StagnationThreshold>>
detect_expansion_stagnation(current_territory, tick) ==
  LET st == IF tick % CheckInterval = 0
            THEN IF current_territory <= last_territory_count + 2
                 THEN stagnation_ticks + CheckInterval
                 ELSE 0
            ELSE stagnation_ticks
      lt == IF tick % CheckInterval = 0 THEN current_territory ELSE last_territory_count
  IN <<st, lt, st >= StagnationThreshold>>

\* get_next_move 1975-1983: the metrics, then the stagnation check, on the snapshot w
TerritoryStep(w) ==
  LET m == calculate_territory_metrics(w.ownershipGrid, NutrientGrid, w.yourTeamId, w.tick)
      d == detect_expansion_stagnation(m[1], w.tick)
  IN /\ cached_my_tile_count' = m[1]
     /\ cached_nutrient_generation' = m[2]
     /\ last_full_scan_tick' = IF m[3] THEN w.tick ELSE last_full_scan_tick
     /\ stagnation_ticks' = d[1]
     /\ last_territory_count' = d[2]
     /\ is_stagnant' = d[3]

----------------------------------------------------------------------------
(* The state after Bot.__init__ (bot.py 721-756, 73-75, 172-173, 299-303). *)

InitBot ==
  /\ tick_count = 0
  /\ map_type = ""
  /\ map_type_cache = EmptyDict
  /\ top_tiles_cache = <<>>
  /\ planned_sites = EmptyDict
  /\ first_spawner_tick = NoneInt
  /\ total_spore_count = NoneInt
  /\ last_territory_count = 0
  /\ stagnation_ticks = 0
  /\ cached_my_tile_count = 0
  /\ cached_nutrient_generation = 0
  /\ last_full_scan_tick = 0
  /\ lane_targets_store = EmptyDict
  /\ lane_by_spore_id = EmptyDict
  /\ pos_hist_by_id = EmptyDict

InitLocals ==
  /\ threat_map = EmptyDict
  /\ is_stagnant = FALSE
  /\ lane_targets = EmptyDict
  /\ used_spores = {}
  /\ used_spawners = {}
  /\ builder_ids = {}
  /\ hunter_ids = {}
  /\ defender_ids = {}
  /\ actions = <<>>
  /\ time_bound = 0      \* no call is running
  /\ cut_at = None

----------------------------------------------------------------------------
(* Function-level specification: _build_threat_map on drawn enemy dicts.   *)

EnemyEntries == {<<c, b>> : c \in Cells(Width, Height), b \in 1..FnMaxEnemyBio}

\* dicts Point -> biomass with at most FnMaxEnemies keys, in every insertion order
RECURSIVE DictSeqs(_)
DictSeqs(n) ==
  IF n = 0 THEN {<<>>}
  ELSE LET shorter == DictSeqs(n - 1)
       IN shorter \cup {Append(d, e) : d \in {s \in shorter : Len(s) = n - 1},
                                        e \in EnemyEntries}

EnemyDicts ==
  {d \in DictSeqs(FnMaxEnemies) : \A i, j \in 1..Len(d) : i # j => d[i][1] # d[j][1]}

InitThreat ==
  /\ InitBot /\ InitLocals
  /\ world = NoWorld
  /\ unchanged_since = 0
  /\ pc = "threat"
  /\ fn_in \in EnemyDicts
  /\ fn_out = <<>>

ApplyThreat ==
  /\ pc = "threat"
  /\ fn_out' = build_threat_map(fn_in, Width, Height)
  /\ pc' = "threat_done"
  /\ UNCHANGED <<world, persistent, territory, locals, fn_in, unchanged_since>>

SpecThreat == InitThreat /\ [][ApplyThreat]_vars

\* enemies standing on cell c or on one of its cardinal neighbours
EnemiesNear(d, c) == {i \in 1..Len(d) : manhattan(d[i][1], c) <= 1}

\* C5: _build_threat_map gives every in-bounds cell the maximum biomass over the
\* enemies on the cell or on a cardinal neighbour of it; a cell with no such enemy
\* has no entry (threat 0), so an empty enemy set yields the empty map.
C5_ThreatIsNeighbourhoodMax ==
  pc = "threat_done" =>
    /\ DOMAIN fn_out \subseteq Cells(Width, Height)
    /\ \A c \in Cells(Width, Height) :
         IF EnemiesNear(fn_in, c) = {}
         THEN c \notin DOMAIN fn_out
         ELSE /\ c \in DOMAIN fn_out
              /\ fn_out[c] = SetMax({fn_in[i][2] : i \in EnemiesNear(fn_in, c)})
              /\ \A i \in EnemiesNear(fn_in, c) : fn_out[c] >= fn_in[i][2]
    /\ (fn_in = <<>> => fn_out = EmptyDict)

\* two enemies of different biomass threaten one cell, the weaker one later in the dict
C5_Witness ==
  /\ pc = "threat_done"
  /\ \E c \in Cells(Width, Height) :
       /\ Cardinality(EnemiesNear(fn_in, c)) = 2
       /\ \E i, j \in EnemiesNear(fn_in, c) : i < j /\ fn_in[i][2] > fn_in[j][2]
       /\ fn_out[c] = FnMaxEnemyBio
  /\ \E i \in 1..Len(fn_in) : fn_in[i][1] = <<0, 0>>

----------------------------------------------------------------------------
(* Function-level specification: should_build_first_spawner_v8 on drawn    *)
(* arguments.  The caller (bot.py 1031-1040) passes the number of          *)
(* actionable spores and the largest biomass among them, so max_biomass    *)
(* is 0 without an actionable spore and at least 2 with one.               *)

TimingArgs ==
  {a \in [mtype : MapTypes, tick : 1..FnMaxTick, actionable_count : 0..FnMaxCount,
          max_biomass : 0..FnMaxBiomass, next_spawner_cost : 0..FnMaxCost] :
     /\ (a.actionable_count = 0) <=> (a.max_biomass = 0)
     /\ a.max_biomass # 1}

InitTiming ==
  /\ InitBot /\ InitLocals
  /\ world = NoWorld
  /\ unchanged_since = 0
  /\ pc = "timing"
  /\ fn_in \in TimingArgs
  /\ fn_out = <<>>

ApplyTiming ==
  /\ pc = "timing"
  /\ fn_out' = should_build_first_spawner_v8(fn_in.mtype, fn_in.tick, fn_in.actionable_count,
                                             fn_in.max_biomass, fn_in.next_spawner_cost)
  /\ pc' = "timing_done"
  /\ UNCHANGED <<world, persistent, territory, locals, fn_in, unchanged_since>>

SpecTiming == InitTiming /\ [][ApplyTiming]_vars

\* the last tick of the middle tier of each map label (bot.py 248, 263, 277)
ForcedAfter(mtype) == IF mtype = "blocked_small" THEN 15 ELSE 12

\* C6: past the map label's tick threshold, with at least one actionable unit,
\* should_build_first_spawner_v8 returns should-build = true with the emergency
\* flag, whatever the biomass is relative to the next-facility cost.
C6_ForcedTierAlwaysBuilds ==
  (pc = "timing_done" /\ fn_in.tick > ForcedAfter(fn_in.mtype) /\ fn_in.actionable_count >= 1)
    => (fn_out[1] = TRUE /\ fn_out[3] = TRUE)

----------------------------------------------------------------------------
(* The snapshot (game_message): tick, yourTeamId, world.ownershipGrid,     *)
(* world.biomassGrid, world.spores, and of teamInfos[yourTeamId] the       *)
(* spores, spawners, nutrients and nextSpawnerCost.  A spore is a record   *)
(* [id, pos, biomass, teamId], a spawner a record [id, pos].               *)

AllCells == Cells(Width, Height)

EmptyGrid == [c \in AllCells |-> 0]

\* row-major index of a cell, the order of the grid's rows
CellIndex(c) == c[2] * Width + c[1]

\* an ownership grid in which the first n cells in row-major order are ours
OwnedPrefix(n) == [c \in AllCells |-> IF CellIndex(c) < n THEN MyTeamId ELSE 0]

BareWorld(t, og) ==
  [tick |-> t, yourTeamId |-> MyTeamId, ownershipGrid |-> og, biomassGrid |-> EmptyGrid,
   spores |-> <<>>, mySpores |-> <<>>, spawners |-> <<>>, nutrients |-> 0,
   nextSpawnerCost |-> 0]

OwnedCount(w) == Cardinality({c \in AllCells : w.ownershipGrid[c] = w.yourTeamId})

----------------------------------------------------------------------------
(* Stagnation specification: get_next_move is called on every tick from 1  *)
(* on; only the territory step of it (bot.py 1975-1983) is followed, on    *)
(* snapshots that differ in the number of owned tiles.                     *)

InitStag ==
  /\ InitBot /\ InitLocals
  /\ world = NoWorld
  /\ unchanged_since = 0
  /\ pc = "stag"
  /\ fn_in = <<>>
  /\ fn_out = <<>>

StagTick ==
  /\ pc = "stag"
  /\ tick_count < StagMaxTick
  /\ \E n \in {0, StagMaxTiles} :
       LET w == BareWorld(tick_count + 1, OwnedPrefix(n))
       IN /\ world' = w
          /\ tick_count' = w.tick
          /\ TerritoryStep(w)
          /\ unchanged_since' = IF world # NoWorld /\ OwnedCount(world) = n
                                THEN unchanged_since ELSE w.tick
  /\ UNCHANGED <<pc, map_type, map_type_cache, top_tiles_cache, planned_sites,
                 first_spawner_tick, total_spore_count, lane_targets_store, lane_by_spore_id,
                 pos_hist_by_id, threat_map, lane_targets, used_spores, used_spawners,
                 builder_ids, hunter_ids, defender_ids, actions, time_bound, cut_at, fnvars>>

SpecStag == InitStag /\ [][StagTick]_vars

\* C8 as claimed: an owned-tile count unchanged for 40 or more ticks makes
\* detect_expansion_stagnation return true.
C8_UnchangedFortyTicks ==
  (pc = "stag" /\ world # NoWorld /\ tick_count - unchanged_since >= 40) => is_stagnant

\* how long an unchanged count has to last before the result is certainly true
StagnantAfter == StagnationThreshold + CheckInterval + 1

\* C8 (amended): the result turns true exactly at a stagnation check (a tick
\* divisible by 20) that, like the check before it, sees the scanned owned-tile
\* count at most 2 above the count the previous check recorded; a count unchanged
\* for 61 ticks guarantees that; once true the result stays true until a check
\* sees growth of more than 2 tiles, and that check resets it to false.
C8_StagnationByChecks ==
  /\ [](pc = "stag" /\ world # NoWorld /\ tick_count - unchanged_since >= StagnantAfter
          => is_stagnant)
  /\ [][(pc = "stag" /\ ~is_stagnant /\ is_stagnant')
          => /\ tick_count' % CheckInterval = 0
             /\ stagnation_ticks = StagnationThreshold - CheckInterval
             /\ cached_my_tile_count' <= last_territory_count + 2]_vars
  /\ [][(pc = "stag" /\ is_stagnant /\ ~is_stagnant')
          => /\ tick_count' % CheckInterval = 0
             /\ cached_my_tile_count' > last_territory_count + 2]_vars
  /\ [][(pc = "stag" /\ is_stagnant /\ tick_count' % CheckInterval = 0
           /\ cached_my_tile_count' > last_territory_count + 2)
          => ~is_stagnant']_vars

\* a count unchanged for 61 ticks or more, with the result true after two checks
C8_Witness ==
  /\ pc = "stag"
  /\ is_stagnant
  /\ stagnation_ticks = StagnationThreshold
  /\ tick_count - unchanged_since >= StagnantAfter
  /\ OwnedCount(world) = StagMaxTiles

----------------------------------------------------------------------------
(* Python built-ins on lists.                                              *)

\* list.sort(key=..., reverse=True) for the key nums[i] / dens[i] (dens > 0): a
\* stable sort, equal keys keep their order
SortDescFrac(items, nums, dens) ==
  LET n == Len(items)
      Before(k, j) == \/ nums[k] * dens[j] > nums[j] * dens[k]
                      \/ (nums[k] * dens[j] = nums[j] * dens[k] /\ k < j)
      Rank(j) == 1 + Cardinality({k \in 1..n : Before(k, j)})
  IN [i \in 1..n |-> items[CHOOSE j \in 1..n : Rank(j) = i]]

SortDesc(items, keys) == SortDescFrac(items, keys, [i \in 1..Len(items) |-> 1])

\* index of min(items, key=...): the first smallest key; keys is not empty
FirstMinIndex(keys) ==
  CHOOSE j \in 1..Len(keys) :
    \A k \in 1..Len(keys) : keys[j] < keys[k] \/ (keys[j] = keys[k] /\ j <= k)

\* index of max(items, key=...): the first largest key; keys is not empty
FirstMaxIndex(keys) ==
  CHOOSE j \in 1..Len(keys) :
    \A k \in 1..Len(keys) : keys[j] > keys[k] \/ (keys[j] = keys[k] /\ j <= k)

\* items[:k]
Prefix(items, k) == SubSeq(items, 1, Min2(k, Len(items)))

InSeq(x, items) == \E i \in 1..Len(items) : items[i] = x

\* d[k] = v on a dict kept as a sequence of pairs: a new key goes last
DictSeqPut(d, k, v) ==
  IF \E i \in 1..Len(d) : d[i][1] = k
  THEN [i \in 1..Len(d) |-> IF d[i][1] = k THEN <<k, v>> ELSE d[i]]
  ELSE Append(d, <<k, v>>)

----------------------------------------------------------------------------
(* Indexing the snapshot (bot.py 775-841, 873-895, 1947-1963, 2027-2036).  *)

tile_value(pt) == NutrientGrid[pt]
tile_owner(w, pt) == w.ownershipGrid[pt]
tile_biomass(w, pt) == w.biomassGrid[pt]

\* Bot._get_enemy_positions: enemy_biomass_at, from spore i of world.spores on
RECURSIVE EnemyDictLoop(_, _, _, _)
EnemyDictLoop(d, spores, i, my_team_id) ==
  IF i > Len(spores) THEN d
  ELSE LET sp == spores[i]
       IN IF sp.teamId = my_team_id \/ sp.teamId = 0
          THEN EnemyDictLoop(d, spores, i + 1, my_team_id)
          ELSE EnemyDictLoop(DictSeqPut(d, sp.pos, Max2(DictSeqGet(d, sp.pos, 0), sp.biomass)),
                             spores, i + 1, my_team_id)

enemy_biomass_at(w) == EnemyDictLoop(<<>>, w.spores, 1, w.yourTeamId)

\* Bot._get_enemy_positions: enemy_list, by biomass, largest first
enemy_list(w) ==
  LET d == enemy_biomass_at(w) IN SortDesc(d, [i \in 1..Len(d) |-> d[i][2]])

\* Bot._get_neutral_positions
IsNeutral(sp) == sp.teamId = 0
neutral_spores(w) ==
  LET ns == SelectSeq(w.spores, IsNeutral) IN [i \in 1..Len(ns) |-> <<ns[i].pos, ns[i].biomass>>]

\* my_biomass_at (bot.py 1960-1963)
my_biomass_at(w, pt) ==
  SetMax({0} \cup {w.mySpores[i].biomass : i \in {j \in 1..Len(w.mySpores) : w.mySpores[j].pos = pt}})

\* actionable_spores, big_spores (bot.py 2028-2029)
IsActionable(sp) == sp.biomass >= 2
IsBig(sp) == sp.biomass >= 6
\* every friendly unit, whatever its biomass
EverySpore(w) == w.mySpores

actionable_spores(w) == SelectSeq(w.mySpores, IsActionable)
big_spores(w) == SelectSeq(w.mySpores, IsBig)

\* spawner_pts (bot.py 1992)
spawner_pts(w) == [i \in 1..Len(w.spawners) |-> w.spawners[i].pos]

\* survival_mode (bot.py 2033-2036)
survival_mode(w) ==
  \/ (Len(w.spawners) = 0 /\ Len(w.mySpores) <= 2)
  \/ (Len(w.spawners) > 0 /\ Len(w.mySpores) <= 1)

RECURSIVE SeqSum(_)
SeqSum(q) == IF q = <<>> THEN 0 ELSE Head(q) + SeqSum(Tail(q))

\* Bot._calculate_my_center
calculate_my_center(w) ==
  LET sp == spawner_pts(w)
      act == actionable_spores(w)
      n == Len(act)
  IN IF sp # <<>> THEN sp[1]
     ELSE IF n > 0
          THEN << SeqSum([i \in 1..n |-> act[i].pos[1]]) \div n,
                  SeqSum([i \in 1..n |-> act[i].pos[2]]) \div n >>
          ELSE << Width \div 2, Height \div 2 >>

\* Bot._ensure_top_tiles_cache on an empty cache: every cell in row order, sorted by
\* nutrient value, largest first, cut to _top_tiles_k
TopTilesK == 400
RowOrder == [i \in 1..(Width * Height) |-> << (i - 1) % Width, (i - 1) \div Width >>]
TopTiles == Prefix(SortDesc(RowOrder, [i \in 1..Len(RowOrder) |-> tile_value(RowOrder[i])]),
                   TopTilesK)

ensure_top_tiles_cache == IF top_tiles_cache # <<>> THEN top_tiles_cache ELSE TopTiles

\* Bot.enemy_density_in_radius
enemy_density_in_radius(center, eba, radius) ==
  Cardinality({i \in 1..Len(eba) : manhattan(center, eba[i][1]) <= radius})

\* Bot._min_enemy_dist (the first 60 entries of enemy_list)
NoEnemyDist == 999
EnemySampleCap == 60
min_enemy_dist(pt, elist) ==
  IF elist = <<>> THEN NoEnemyDist
  ELSE LET sample == Prefix(elist, EnemySampleCap)
       IN Min2(NoEnemyDist,
               -SetMax({-manhattan(pt, sample[i][1]) : i \in 1..Len(sample)}))

\* (self._total_spore_count or 3)
TotalSporeCountOr3 ==
  IF total_spore_count = NoneInt \/ total_spore_count = 0 THEN 3 ELSE total_spore_count

\* ImprovedMapAnalysis.analyze_map_type (bot.py 175-211) on a miss of the cache
classify_map(width, height, neutrals) ==
  LET area == width * height
      cx == width \div 2
      cy == height \div 2
      center_neutrals == Cardinality({i \in 1..Len(neutrals) :
                            /\ Abs(neutrals[i][1][1] - cx) <= 3
                            /\ Abs(neutrals[i][1][2] - cy) <= 3})
      total_neutrals == Len(neutrals)
  IN IF area <= 225
     THEN IF center_neutrals >= 5 \/ total_neutrals >= 8 THEN "blocked_small" ELSE "open_rush"
     ELSE IF area <= 900 THEN "medium" ELSE "large"

\* the classification computed afresh at every call
AnalyzeUncached(width, height, neutrals) == classify_map(width, height, neutrals)

analyze_map_type(width, height, neutrals) ==
  IF <<width, height>> \in DOMAIN map_type_cache
  THEN map_type_cache[<<width, height>>]
  ELSE classify_map(width, height, neutrals)

\* _map_type_cache after the call (bot.py 183-185, 210)
map_type_cache_after(width, height, neutrals) ==
  IF <<width, height>> \in DOMAIN map_type_cache
  THEN map_type_cache
  ELSE Put(map_type_cache, <<width, height>>, classify_map(width, height, neutrals))

----------------------------------------------------------------------------
(* Function-level specification: a run of calls of analyze_map_type on one *)
(* ImprovedMapAnalysis object.  fn_out is the log of the calls made, each  *)
(* <<width, height, neutral_spores, label returned>>.                      *)

MapMaxCalls == 3

MapDims == {<<4, 3>>, <<15, 15>>, <<16, 15>>, <<30, 30>>, <<31, 30>>}

\* n neutral units of biomass 1 on the cells (0,0), (1,0), (2,0), (3,0), (0,1), ...
NeutralRun(n) == [i \in 1..n |-> << <<(i - 1) % 4, (i - 1) \div 4>>, 1 >>]

MapNeutrals == {NeutralRun(0), NeutralRun(5), NeutralRun(8)}

InitMap ==
  /\ InitBot /\ InitLocals
  /\ world = NoWorld
  /\ unchanged_since = 0
  /\ pc = "map"
  /\ fn_in = <<>>
  /\ fn_out = <<>>

ApplyMap ==
  /\ pc = "map"
  /\ Len(fn_out) < MapMaxCalls
  /\ \E d \in MapDims, n \in MapNeutrals :
       /\ fn_in' = <<d[1], d[2], n>>
       /\ fn_out' = Append(fn_out, <<d[1], d[2], n, analyze_map_type(d[1], d[2], n)>>)
       /\ map_type_cache' = map_type_cache_after(d[1], d[2], n)
  /\ UNCHANGED <<pc, world, tick_count, map_type, top_tiles_cache, planned_sites,
                 first_spawner_tick, total_spore_count, lane_targets_store,
                 lane_by_spore_id, pos_hist_by_id, territory, locals, unchanged_since>>

SpecMap == InitMap /\ [][ApplyMap]_vars

\* C12: on one analyzer, two calls of analyze_map_type with the same width,
\* height and neutral layout return the same label, and once a label has been
\* computed for given dimensions every later call for those dimensions returns
\* the stored label, whatever its neutral layout.
C12_MapLabelCached ==
  pc = "map" =>
    /\ \A i, j \in 1..Len(fn_out) :
         (fn_out[i][1] = fn_out[j][1] /\ fn_out[i][2] = fn_out[j][2]
            /\ fn_out[i][3] = fn_out[j][3])
           => fn_out[i][4] = fn_out[j][4]
    /\ \A i, j \in 1..Len(fn_out) :
         (i < j /\ fn_out[i][1] = fn_out[j][1] /\ fn_out[i][2] = fn_out[j][2])
           => /\ fn_out[j][4] = fn_out[i][4]
              /\ map_type_cache[<<fn_out[j][1], fn_out[j][2]>>] = fn_out[i][4]

\* a later call for cached dimensions whose own neutral layout would classify
\* otherwise
C12_Witness ==
  /\ pc = "map"
  /\ \E i, j \in 1..Len(fn_out) :
       /\ i < j /\ fn_out[i][1] = fn_out[j][1] /\ fn_out[i][2] = fn_out[j][2]
       /\ classify_map(fn_out[j][1], fn_out[j][2], fn_out[j][3]) # fn_out[i][4]
       /\ fn_out[j][4] = fn_out[i][4]

----------------------------------------------------------------------------
(* Site scoring and selection (bot.py 455-611).                            *)

score_spawner_site(pt, w, builder_biomass, is_second_spawner, tick, is_emergency) ==
  LET eba == enemy_biomass_at(w)
      owner == tile_owner(w, pt)
      biomass == tile_biomass(w, pt)
      threat == Get(threat_map, pt, 0)
      adj_threat == adjacent_enemy_max(pt, eba)
      enemy_dens == enemy_density_in_radius(pt, eba, 5)
      min_dist == min_enemy_dist(pt, enemy_list(w))
      sps == spawner_pts(w)
      safety_margin == IF builder_biomass >= 6 THEN 2 ELSE 1
  IN tile_value(pt) * 5
     + (IF owner = w.yourTeamId THEN 100 ELSE 0)
     - (IF biomass > 0 /\ owner # w.yourTeamId THEN 500 ELSE 0)
     - (IF is_emergency
        THEN IF threat >= builder_biomass THEN 400 ELSE threat * 15
        ELSE IF threat >= builder_biomass - safety_margin THEN 250 ELSE threat * 25)
     - (IF is_emergency
        THEN adj_threat * 10
        ELSE IF adj_threat > 0 /\ builder_biomass <= adj_threat THEN 200 ELSE adj_threat * 20)
     - (IF map_type \in {"open_rush", "blocked_small", "medium"}
        THEN IF tick <= 15 THEN enemy_dens * 40
             ELSE IF tick <= 30 THEN enemy_dens * 25 ELSE enemy_dens * 15
        ELSE enemy_dens * 10)
     + Min2(min_dist * 8, 200)
     + (IF is_second_spawner /\ sps # <<>> THEN manhattan(pt, sps[1]) * 6 ELSE 0)
     - (IF InSeq(pt, sps) THEN 10000 ELSE 0)

\* select_best_site: the first candidate of the largest score among those holding no
\* spawner; NoPoint when there is none
NotOnSpawner(w, pt) == ~InSeq(pt, spawner_pts(w))

\* a selection that also rejects the cells unsafe for the builder
SelectSafeSite(candidate_tiles, w, builder_biomass, is_second_spawner, tick, is_emergency) ==
  LET free == SelectSeq(candidate_tiles,
                LAMBDA pt : NotOnSpawner(w, pt) /\ Get(threat_map, pt, 0) < builder_biomass)
  IN IF free = <<>> THEN NoPoint
     ELSE free[FirstMaxIndex([i \in 1..Len(free) |->
             score_spawner_site(free[i], w, builder_biomass, is_second_spawner,
                                tick, is_emergency)])]

select_best_site(candidate_tiles, w, builder_biomass, is_second_spawner, tick, is_emergency) ==
  LET free == SelectSeq(candidate_tiles, LAMBDA pt : NotOnSpawner(w, pt))
  IN IF free = <<>> THEN NoPoint
     ELSE free[FirstMaxIndex([i \in 1..Len(free) |->
             score_spawner_site(free[i], w, builder_biomass, is_second_spawner,
                                tick, is_emergency)])]

----------------------------------------------------------------------------
(* Builder selection (bot.py 629-698).  NoSpore stands for None.           *)

NoSpore == [id |-> "", pos |-> NoPoint, biomass |-> 0, teamId |-> 0]

builder_score(sp, site, next_spawner_cost, is_emergency) ==
  LET sp_threat == Get(threat_map, sp.pos, 0)
  IN - manhattan(sp.pos, site) * 100
     + (sp.biomass - next_spawner_cost) * 5
     + (IF is_emergency
        THEN IF sp_threat < sp.biomass THEN 50 ELSE 0
        ELSE IF sp_threat = 0 THEN 100
             ELSE IF sp_threat < sp.biomass - 2 THEN 50 ELSE -100)

\* the selection without the biomass requirement
SelectBuilderAnyBiomass(site, actionable, next_spawner_cost, avoid_ids, used, is_emergency) ==
  LET candidates == SelectSeq(actionable,
                      LAMBDA sp : sp.id \notin avoid_ids /\ sp.id \notin used)
  IN IF candidates = <<>> THEN NoSpore
     ELSE candidates[FirstMaxIndex([i \in 1..Len(candidates) |->
             builder_score(candidates[i], site, next_spawner_cost, is_emergency)])]

select_builder_progressive(site, actionable, next_spawner_cost, avoid_ids, used, is_emergency) ==
  LET candidates == SelectSeq(actionable,
                      LAMBDA sp : /\ sp.id \notin avoid_ids
                                  /\ sp.id \notin used
                                  /\ sp.biomass >= next_spawner_cost)
  IN IF candidates = <<>> THEN NoSpore
     ELSE candidates[FirstMaxIndex([i \in 1..Len(candidates) |->
             builder_score(candidates[i], site, next_spawner_cost, is_emergency)])]

----------------------------------------------------------------------------
(* The action list.  An action is a record: kind is "create"               *)
(* (SporeCreateSpawnerAction), "moveto" (SporeMoveToAction, pos), "move"   *)
(* (SporeMoveAction, dir), "split" (SporeSplitAction, dir and biomass) or  *)
(* "produce" (SpawnerProduceSporeAction, biomass); id is the sporeId or    *)
(* spawnerId.  by names the phase of get_next_move that appended it.       *)

NoDir == <<0, 0>>

MkAction(kind, id, pos, dir, biomass, by) ==
  [kind |-> kind, id |-> id, pos |-> pos, dir |-> dir, biomass |-> biomass, by |-> by]

\* what a building phase hands back: the actions it appended, used_spores and
\* builder_ids after it, and _planned_sites after it
BuildResult(acts, used, builders, planned) ==
  [acts |-> acts, used |-> used, builders |-> builders, planned |-> planned]

\* a locked site that is never dropped
SiteNeverDropped(locked, w) == locked

\* a locked site is dropped when a spawner stands on it or when it holds biomass on
\* a tile that is not ours (bot.py 1063-1067, 1230-1234)
revalidate_site(locked, w) ==
  IF locked = NoPoint THEN NoPoint
  ELSE IF InSeq(locked, spawner_pts(w)) THEN NoPoint
  ELSE IF tile_biomass(w, locked) # 0 /\ tile_owner(w, locked) # w.yourTeamId THEN NoPoint
  ELSE locked

\* bot.py 1091-1096: the first of the 20 best tiles that holds no spawner
highest_nutrient_site(w) ==
  LET free == SelectSeq(Prefix(top_tiles_cache, 20), LAMBDA pt : NotOnSpawner(w, pt))
  IN IF free = <<>> THEN NoPoint ELSE free[1]

\* a builder that acts only once it stands on the site
FirstBuilderNeverWalks(builder, locked, cost, used, builders, planned, by) ==
  IF builder.pos = locked /\ builder.biomass >= cost
  THEN BuildResult(<<MkAction("create", builder.id, NoPoint, NoDir, 0, by)>>,
                   used \cup {builder.id}, builders \cup {builder.id}, planned)
  ELSE BuildResult(<<>>, used, builders \cup {builder.id}, planned)

\* bot.py 1144-1165: the builder creates the spawner on the site, or walks to it
first_builder_acts(builder, locked, cost, used, builders, planned, by) ==
  IF builder.pos = locked
  THEN IF builder.biomass >= cost
       THEN BuildResult(<<MkAction("create", builder.id, NoPoint, NoDir, 0, by)>>,
                        used \cup {builder.id}, builders \cup {builder.id}, planned)
       ELSE BuildResult(<<>>, used, builders \cup {builder.id}, planned)
  ELSE BuildResult(<<MkAction("moveto", builder.id, locked, NoDir, 0, by)>>,
                   used \cup {builder.id}, builders \cup {builder.id}, planned)

\* _build_first_spawner (bot.py 998-1165)
build_first_spawner(w, used, builders, by) ==
  LET act == actionable_spores(w)
      nothing == BuildResult(<<>>, used, builders, planned_sites)
      cost == w.nextSpawnerCost
      decision == should_build_first_spawner_v8(
                    map_type, tick_count, Len(act),
                    SetMax({0} \cup {act[i].biomass : i \in 1..Len(act)}), cost)
      min_needed == decision[2]
      is_emergency == decision[3]
      hint_biomass == IF map_type = "blocked_small" THEN Max2(min_needed, 4)
                      ELSE IF TotalSporeCountOr3 <= 3 THEN Max2(min_needed, 3)
                      ELSE Max2(min_needed, 6)
      kept == revalidate_site(Get(planned_sites, "first", NoPoint), w)
      scored == select_best_site(Prefix(top_tiles_cache, 80), w, hint_biomass, FALSE,
                                 tick_count, is_emergency)
      chosen == IF scored = NoPoint /\ is_emergency /\ top_tiles_cache # <<>>
                THEN highest_nutrient_site(w) ELSE scored
      locked == IF kept # NoPoint THEN kept ELSE chosen
      planned == IF kept = NoPoint /\ chosen # NoPoint
                 THEN Put(planned_sites, "first", chosen) ELSE planned_sites
      ideal == select_builder_progressive(locked, act, min_needed, {}, used, is_emergency)
      lower == IF ideal = NoSpore /\ is_emergency
               THEN select_builder_progressive(locked, act, 2, {}, used, TRUE) ELSE ideal
      available == SelectSeq(act, LAMBDA sp : sp.id \notin used)
      builder == IF lower = NoSpore /\ is_emergency /\ available # <<>>
                 THEN available[FirstMaxIndex([i \in 1..Len(available) |-> available[i].biomass])]
                 ELSE lower
  IN IF act = <<>> THEN nothing
     ELSE IF ~decision[1] THEN nothing
     ELSE IF locked = NoPoint THEN BuildResult(<<>>, used, builders, planned)
     ELSE IF builder = NoSpore THEN BuildResult(<<>>, used, builders, planned)
     ELSE first_builder_acts(builder, locked, cost, used, builders, planned, by)

\* the decision of _build_second_spawner (bot.py 1196-1217); control_rate is
\* my_tile_count / total_tiles, compared here in hundredths
should_build_second(nutrients, my_tile_count, total_tiles) ==
  LET rate_over(pct) == total_tiles > 0 /\ my_tile_count * 100 > pct * total_tiles
      spawner_age == IF first_spawner_tick # NoneInt /\ first_spawner_tick # 0
                     THEN tick_count - first_spawner_tick ELSE 0
  IN IF map_type = "large"
     THEN \/ (rate_over(12) /\ nutrients >= 15)
          \/ (nutrients >= 20 /\ spawner_age > 12)
          \/ spawner_age > 25
     ELSE IF TotalSporeCountOr3 <= 3
     THEN \/ (rate_over(15) /\ nutrients >= 10)
          \/ (nutrients >= 15 /\ spawner_age > 10)
     ELSE \/ (rate_over(22) /\ nutrients >= 18)
          \/ (nutrients >= 25 /\ spawner_age > 15)

\* bot.py 1278-1296: the second builder creates on the site, or walks to it
second_builder_acts(builder2, locked2, used, builders, planned, by) ==
  IF builder2.pos = locked2
  THEN BuildResult(<<MkAction("create", builder2.id, NoPoint, NoDir, 0, by)>>,
                   used \cup {builder2.id}, builders \cup {builder2.id}, planned)
  ELSE BuildResult(<<MkAction("moveto", builder2.id, locked2, NoDir, 0, by)>>,
                   used \cup {builder2.id}, builders \cup {builder2.id}, planned)

\* _build_second_spawner (bot.py 1168-1296)
build_second_spawner(w, used, builders, my_tile_count, total_tiles, by) ==
  LET act == actionable_spores(w)
      nothing == BuildResult(<<>>, used, builders, planned_sites)
      min_needed2 == w.nextSpawnerCost + 2
      hint_biomass2 == Max2(min_needed2, 6)
      kept == revalidate_site(Get(planned_sites, "second", NoPoint), w)
      scored == select_best_site(Prefix(top_tiles_cache, 80), w, hint_biomass2, TRUE,
                                 tick_count, FALSE)
      locked2 == IF kept # NoPoint THEN kept ELSE scored
      planned == IF kept = NoPoint /\ scored # NoPoint
                 THEN Put(planned_sites, "second", scored) ELSE planned_sites
      builder2 == select_builder_progressive(locked2, act, min_needed2, builders, used, FALSE)
  IN IF Len(w.spawners) # 1 THEN nothing
     ELSE IF act = <<>> THEN nothing
     ELSE IF ~should_build_second(w.nutrients, my_tile_count, total_tiles) THEN nothing
     ELSE IF locked2 = NoPoint THEN BuildResult(<<>>, used, builders, planned)
     ELSE IF builder2 = NoSpore THEN BuildResult(<<>>, used, builders, planned)
     ELSE second_builder_acts(builder2, locked2, used, builders, planned, by)

----------------------------------------------------------------------------
(* ExpansionEnhancement (bot.py 345-436).  control_rate is                 *)
(* my_tile_count / total_tiles; its comparisons are made in hundredths.    *)

rate_below(my_tile_count, total_tiles, pct) ==
  IF total_tiles > 0 THEN my_tile_count * 100 < pct * total_tiles ELSE 0 < pct

improved_2biomass_penalty(mtype, tick, my_tile_count, total_tiles, spawner_count, stagnant, nutrient_generation) ==
  IF stagnant THEN 50
  ELSE IF tick < 100
  THEN IF nutrient_generation < 10 THEN 80
       ELSE IF mtype = "blocked_small" THEN 120 ELSE 150
  ELSE IF tick < 300
  THEN IF nutrient_generation < 20 THEN 150
       ELSE IF rate_below(my_tile_count, total_tiles, 25) THEN 200 ELSE 350
  ELSE IF tick < 600
  THEN IF rate_below(my_tile_count, total_tiles, 40) THEN 300 ELSE 500
  ELSE IF spawner_count >= 2 THEN 800 ELSE 600

\* a size table that never reads the local threat
ProductionIgnoringThreat(tick, local_threat, spore_count, nutrients, my_territory_count, total_tiles, stagnant, nutrient_generation) ==
  IF stagnant /\ nutrients >= 30 THEN Min2(nutrients \div 3, 15) ELSE Max2(8, nutrients \div 6)

aggressive_spawner_production(tick, local_threat, spore_count, nutrients, my_territory_count, total_tiles, stagnant, nutrient_generation) ==
  IF stagnant /\ nutrients >= 30 THEN Min2(nutrients \div 3, 15)
  ELSE IF tick < 150
  THEN IF spore_count < 10 THEN Max2(8, nutrients \div 6)
       ELSE IF spore_count < 20 THEN Max2(6, nutrients \div 8)
       ELSE Max2(4, nutrients \div 10)
  ELSE IF tick < 400
  THEN IF nutrient_generation < 15 THEN Max2(5, nutrients \div 10)
       ELSE IF nutrient_generation < 30 THEN Max2(6, nutrients \div 8)
       ELSE Max2(7, nutrients \div 7)
  ELSE IF tick < 700
  THEN IF local_threat > 0 THEN Max2(local_threat + 3, 8)
       ELSE IF rate_below(my_territory_count, total_tiles, 40)
            THEN Max2(8, nutrients \div 6) ELSE Max2(6, nutrients \div 8)
  ELSE IF nutrients >= 2000 THEN Min2(15, nutrients \div 5)
  ELSE IF nutrients >= 1000 THEN Min2(12, nutrients \div 6)
  ELSE IF local_threat > 0 THEN Max2(local_threat + 3, 8)
  ELSE Max2(7, nutrients \div 8)

----------------------------------------------------------------------------
(* _manage_spawner_production (bot.py 1307-1386).                          *)

reserve_nutrients(w) ==
  IF TotalSporeCountOr3 <= 3 THEN 2 ELSE IF Len(w.spawners) >= 2 THEN 3 ELSE 4

\* bot.py 1346-1355
local_threat_at(spt, w, width, height) ==
  LET around == {Get(threat_map, <<spt[1] + DIRS[i][1], spt[2] + DIRS[i][2]>>, 0) :
                   i \in {j \in 1..Len(DIRS) :
                            in_bounds(spt[1] + DIRS[j][1], spt[2] + DIRS[j][2], width, height)}}
  IN SetMax({Get(threat_map, spt, 0), adjacent_enemy_max(spt, enemy_biomass_at(w))} \cup around)

\* a loop over my_team.spawners that spends without keeping a reserve
RECURSIVE ProduceUnreserved(_, _, _, _, _, _, _, _, _)
ProduceUnreserved(w, i, acts, usedsp, nutrients, my_tile_count, nutrient_generation, stagnant, by) ==
  IF i > Len(w.spawners) THEN <<acts, usedsp, nutrients>>
  ELSE
    LET spawner == w.spawners[i]
        desired == aggressive_spawner_production(
                     tick_count, local_threat_at(spawner.pos, w, Width, Height),
                     Len(w.mySpores), nutrients, my_tile_count, Width * Height,
                     stagnant, nutrient_generation)
    IN IF spawner.id \notin usedsp /\ nutrients >= desired /\ desired >= 2
       THEN ProduceUnreserved(w, i + 1,
                              Append(acts, MkAction("produce", spawner.id, NoPoint, NoDir,
                                                    desired, by)),
                              usedsp \cup {spawner.id}, nutrients - desired, my_tile_count,
                              nutrient_generation, stagnant, by)
       ELSE ProduceUnreserved(w, i + 1, acts, usedsp, nutrients, my_tile_count,
                              nutrient_generation, stagnant, by)

\* the loop over my_team.spawners from spawner i on; the result is
\* <<appended actions, used_spawners, nutrients>>
RECURSIVE ProductionLoop(_, _, _, _, _, _, _, _, _)
ProductionLoop(w, i, acts, usedsp, nutrients, my_tile_count, nutrient_generation, stagnant, by) ==
  IF i > Len(w.spawners) THEN <<acts, usedsp, nutrients>>
  ELSE
    LET spawner == w.spawners[i]
        desired == aggressive_spawner_production(
                     tick_count, local_threat_at(spawner.pos, w, Width, Height),
                     Len(w.mySpores), nutrients, my_tile_count, Width * Height,
                     stagnant, nutrient_generation)
    IN IF spawner.id \in usedsp
       THEN ProductionLoop(w, i + 1, acts, usedsp, nutrients, my_tile_count,
                           nutrient_generation, stagnant, by)
       ELSE IF nutrients - desired < reserve_nutrients(w)
       THEN ProductionLoop(w, i + 1, acts, usedsp, nutrients, my_tile_count,
                           nutrient_generation, stagnant, by)
       ELSE IF nutrients >= desired /\ desired >= 2
       THEN ProductionLoop(w, i + 1,
                           Append(acts, MkAction("produce", spawner.id, NoPoint, NoDir,
                                                 desired, by)),
                           usedsp \cup {spawner.id}, nutrients - desired, my_tile_count,
                           nutrient_generation, stagnant, by)
       ELSE ProductionLoop(w, i + 1, acts, usedsp, nutrients, my_tile_count,
                           nutrient_generation, stagnant, by)

manage_spawner_production(w, usedsp, my_tile_count, nutrient_generation, stagnant, by) ==
  ProductionLoop(w, 1, <<>>, usedsp, w.nutrients, my_tile_count, nutrient_generation,
                 stagnant, by)

----------------------------------------------------------------------------
(* _find_combat_targets (bot.py 1389-1452).  A target is the tuple         *)
(* <<target_pt, profit, attacker_id, dist>>.                               *)

\* min(attackers, key=distance to pt)
nearest_to(attackers, pt) ==
  attackers[FirstMinIndex([i \in 1..Len(attackers) |-> manhattan(attackers[i].pos, pt)])]

\* the targets one list of units gives: margin is what an attacker's biomass must
\* exceed the unit's by, reach the largest distance, divisor what the unit's
\* biomass is divided by in the profit
RECURSIVE TargetsOf(_, _, _, _, _, _, _, _)
TargetsOf(units, i, act, builders, used, margin, reach, divisor) ==
  IF i > Len(units) THEN <<>>
  ELSE
    LET pt == units[i][1]
        bio == units[i][2]
        attackers == SelectSeq(act, LAMBDA sp : /\ sp.id \notin builders
                                                /\ sp.id \notin used
                                                /\ sp.biomass > bio + margin)
        nearest == nearest_to(attackers, pt)
        dist == manhattan(nearest.pos, pt)
        rest == TargetsOf(units, i + 1, act, builders, used, margin, reach, divisor)
    IN IF attackers # <<>> /\ dist <= reach
       THEN <<<<pt, tile_value(pt) + (bio \div divisor), nearest.id, dist>>>> \o rest
       ELSE rest

\* the search over neutral units only
FindNeutralTargets(w, builders, used) ==
  IF survival_mode(w) THEN <<>>
  ELSE
    LET targets == TargetsOf(neutral_spores(w), 1, actionable_spores(w), builders, used, 0, 8, 2)
    IN Prefix(SortDescFrac(targets,
                           [i \in 1..Len(targets) |-> targets[i][2]],
                           [i \in 1..Len(targets) |-> targets[i][4] + 1]), 5)

find_combat_targets(w, builders, used) ==
  IF survival_mode(w) THEN <<>>
  ELSE
    LET act == actionable_spores(w)
        targets == TargetsOf(enemy_list(w), 1, act, builders, used, 1, 10, 1)
                   \o TargetsOf(neutral_spores(w), 1, act, builders, used, 0, 8, 2)
    IN Prefix(SortDescFrac(targets,
                           [i \in 1..Len(targets) |-> targets[i][2]],
                           [i \in 1..Len(targets) |-> targets[i][4] + 1]), 5)

\* the loop of get_next_move over soft_targets (bot.py 2078-2090) from target i on;
\* expiry is the iteration at which out_of_time() first answers true.  The result
\* is <<appended actions, used_spores, hunter_ids, whether the loop ended on
\* out_of_time()>>
ProfitFloor == 20

\* the loop without its test of used_spores
AttackerNeverTaken(target, used) == FALSE

\* attacker_id in used_spores (bot.py 2080)
attacker_taken(target, used) == target[3] \in used

RECURSIVE HunterLoop(_, _, _, _, _, _, _)
HunterLoop(targets, i, expiry, acts, used, hunters, by) ==
  IF i > Len(targets) THEN <<acts, used, hunters, FALSE>>
  ELSE IF i >= expiry THEN <<acts, used, hunters, TRUE>>
  ELSE IF attacker_taken(targets[i], used) THEN <<acts, used, hunters, FALSE>>
  ELSE IF targets[i][2] > ProfitFloor
  THEN HunterLoop(targets, i + 1, expiry,
                  Append(acts, MkAction("moveto", targets[i][3], targets[i][1], NoDir, 0, by)),
                  used \cup {targets[i][3]}, hunters \cup {targets[i][3]}, by)
  ELSE HunterLoop(targets, i + 1, expiry, acts, used, hunters, by)

----------------------------------------------------------------------------
(* _assign_defenders (bot.py 1455-1516).                                   *)

RECURSIVE DefenderLoop(_, _, _, _, _, _)
DefenderLoop(w, i, defenders, builders, hunters, used) ==
  IF i > Len(w.spawners) THEN defenders
  ELSE
    LET spt == w.spawners[i].pos
        act == actionable_spores(w)
        direct_threat == Get(threat_map, spt, 0)
        adjacent_threat == adjacent_enemy_max(spt, enemy_biomass_at(w))
        strong == SelectSeq(act, LAMBDA sp : /\ sp.id \notin builders
                                             /\ sp.id \notin hunters
                                             /\ sp.id \notin used
                                             /\ sp.biomass >= direct_threat + 2)
        spare == SelectSeq(act, LAMBDA sp : /\ sp.id \notin builders
                                            /\ sp.id \notin hunters
                                            /\ sp.id \notin defenders
                                            /\ sp.id \notin used
                                            /\ sp.biomass >= 4)
    IN IF direct_threat > 0
       THEN IF strong # <<>>
            THEN DefenderLoop(w, i + 1, defenders \cup {nearest_to(strong, spt).id},
                              builders, hunters, used)
            ELSE DefenderLoop(w, i + 1, defenders, builders, hunters, used)
       ELSE IF adjacent_threat > 0 /\ spare # <<>>
               /\ Cardinality(defenders) < Len(w.spawners)
       THEN DefenderLoop(w, i + 1, defenders \cup {nearest_to(spare, spt).id},
                         builders, hunters, used)
       ELSE DefenderLoop(w, i + 1, defenders, builders, hunters, used)

assign_defenders(w, builders, hunters, used) ==
  IF w.spawners = <<>> \/ actionable_spores(w) = <<>> THEN {}
  ELSE DefenderLoop(w, 1, {}, builders, hunters, used)

----------------------------------------------------------------------------
(* LanePlanner (bot.py 64-163).  _lane_targets maps a lane to              *)
(* <<target, expiry_tick>>, _lane_by_spore_id a sporeId to                 *)
(* <<lane, expiry_tick>>.                                                  *)

LaneNames == {"NW", "NE", "SW", "SE"}

lane_of(pt, center) ==
  IF pt[2] < center[2]
  THEN IF pt[1] < center[1] THEN "NW" ELSE "NE"
  ELSE IF pt[1] < center[1] THEN "SW" ELSE "SE"

LaneLockTicks == 25

\* an assignment recomputed at every call
AssignLaneAfresh(lanes, spore_id, sp_pt, center, tick) ==
  <<lane_of(sp_pt, center), Put(lanes, spore_id, <<lane_of(sp_pt, center), tick + LaneLockTicks>>)>>

\* assign_lane: <<lane, _lane_by_spore_id afterwards>>
assign_lane(lanes, spore_id, sp_pt, center, tick) ==
  IF spore_id \in DOMAIN lanes /\ tick <= lanes[spore_id][2]
  THEN <<lanes[spore_id][1], lanes>>
  ELSE <<lane_of(sp_pt, center), Put(lanes, spore_id, <<lane_of(sp_pt, center), tick + LaneLockTicks>>)>>

\* a planner that reads no threat when it selects
PickLanesUnderThreat(store, top_tiles, center, tick, stagnant, w, threat_at) ==
  LET ttl == IF stagnant THEN 18 ELSE 10
      live == {l \in DOMAIN store : tick <= store[l][2]}
      eligible(l) == SelectSeq(top_tiles, LAMBDA pt : lane_of(pt, center) = l)
      found == {l \in LaneNames \ live : eligible(l) # <<>>}
      after == [l \in live \cup found |->
                  IF l \in live THEN store[l] ELSE <<eligible(l)[1], tick + ttl>>]
  IN << [l \in DOMAIN after |-> after[l][1]], after >>

\* a planner that selects every lane afresh at every call
PickLanesAfresh(store, top_tiles, center, tick, stagnant, w, threat_at) ==
  LET ttl == IF stagnant THEN 18 ELSE 10
      eligible(l) ==
        SelectSeq(top_tiles,
                  LAMBDA pt : /\ ~(tile_owner(w, pt) = w.yourTeamId /\ manhattan(pt, center) <= 3)
                              /\ ~(Get(threat_at, pt, 0) >= 8)
                              /\ lane_of(pt, center) = l)
      found == {l \in LaneNames : eligible(l) # <<>>}
      after == [l \in found |-> <<eligible(l)[1], tick + ttl>>]
  IN << [l \in DOMAIN after |-> after[l][1]], after >>

\* pick_lane_targets: <<lane -> target, _lane_targets afterwards>>
pick_lane_targets(store, top_tiles, center, tick, stagnant, w, threat_at) ==
  LET ttl == IF stagnant THEN 18 ELSE 10
      scan_k == IF stagnant THEN 140 ELSE 110
      live == {l \in DOMAIN store : tick <= store[l][2]}
      eligible(l) ==
        SelectSeq(Prefix(top_tiles, scan_k),
                  LAMBDA pt : /\ ~(tile_owner(w, pt) = w.yourTeamId /\ manhattan(pt, center) <= 3)
                              /\ ~(Get(threat_at, pt, 0) >= 8)
                              /\ lane_of(pt, center) = l)
      lane_score(pt) == tile_value(pt) * 6
                        + manhattan(pt, center) * (IF stagnant THEN 22 ELSE 14)
                        + (IF tile_owner(w, pt) # w.yourTeamId THEN 120 ELSE 0)
      pick(l) == eligible(l)[FirstMaxIndex([i \in 1..Len(eligible(l)) |->
                                              lane_score(eligible(l)[i])])]
      found == {l \in LaneNames \ live : eligible(l) # <<>>}
      after == [l \in live \cup found |->
                  IF l \in live THEN store[l] ELSE <<pick(l), tick + ttl>>]
  IN << [l \in DOMAIN after |-> after[l][1]], after >>

----------------------------------------------------------------------------
(* _attempt_splits (bot.py 1519-1606).                                     *)

MaxSporesForSplit == 18
SplitMinScore == 35

Step(pt, d) == <<pt[1] + d[1], pt[2] + d[2]>>

\* the direction filter of bot.py 1560-1577
split_allowed(w, sp, d) ==
  LET npt == Step(sp.pos, d)
  IN /\ in_bounds(npt[1], npt[2], Width, Height)
     /\ tile_biomass(w, npt) = 0
     /\ ~(DictSeqGet(enemy_biomass_at(w), npt, 0) >= sp.biomass)
     /\ ~(Get(threat_map, npt, 0) >= sp.biomass)

split_score(w, npt) ==
  tile_value(npt)
  + (IF tile_owner(w, npt) # w.yourTeamId THEN 30 ELSE 0)
  - Get(threat_map, npt, 0) * 40
  - adjacent_enemy_max(npt, enemy_biomass_at(w)) * 30

\* the loop over split_candidates from candidate i on: <<appended actions, used_spores>>
RECURSIVE SplitLoop(_, _, _, _, _, _)
SplitLoop(w, cands, i, used, builders, by) ==
  IF i > Len(cands) THEN <<<<>>, used>>
  ELSE
    LET sp == cands[i]
        ok == SelectSeq(DIRS, LAMBDA d : split_allowed(w, sp, d))
        scores == [j \in 1..Len(ok) |-> split_score(w, Step(sp.pos, ok[j]))]
        best == FirstMaxIndex(scores)
        moving_biomass == sp.biomass \div 2
    IN IF sp.id \in used \/ sp.id \in builders
       THEN SplitLoop(w, cands, i + 1, used, builders, by)
       ELSE IF ok # <<>> /\ scores[best] >= SplitMinScore
               /\ 2 <= moving_biomass /\ moving_biomass < sp.biomass
       THEN << <<MkAction("split", sp.id, NoPoint, ok[best], moving_biomass, by)>>,
               used \cup {sp.id} >>
       ELSE SplitLoop(w, cands, i + 1, used, builders, by)

\* splitting whatever the state of the team
SplitRegardless(w, used, builders, late, by) ==
  LET big == big_spores(w)
      cands == Prefix(SortDesc(big, [i \in 1..Len(big) |-> big[i].biomass]), 3)
  IN IF late THEN <<<<>>, used>> ELSE SplitLoop(w, cands, 1, used, builders, by)

\* late is the answer of time_left_fn() <= 0.010
attempt_splits(w, used, builders, late, by) ==
  LET big == big_spores(w)
      cands == Prefix(SortDesc(big, [i \in 1..Len(big) |-> big[i].biomass]), 3)
  IN IF survival_mode(w) \/ Len(w.mySpores) >= MaxSporesForSplit \/ late
     THEN <<<<>>, used>>
     ELSE SplitLoop(w, cands, 1, used, builders, by)

----------------------------------------------------------------------------
(* _emergency_merge (bot.py 1617-1716).                                    *)

actionable_sorted(w) ==
  LET act == actionable_spores(w) IN SortDesc(act, [i \in 1..Len(act) |-> act[i].biomass])

\* 0 on a trail (a tile of ours that holds biomass), 1 elsewhere
move_cost(w, npt) ==
  IF tile_owner(w, npt) = w.yourTeamId /\ tile_biomass(w, npt) >= 1 THEN 0 ELSE 1

\* _step_towards: the first cheapest direction that gets closer to dst; NoDir for None
step_towards(w, src, dst) ==
  LET closer == SelectSeq(DIRS, LAMBDA d : /\ in_bounds(src[1] + d[1], src[2] + d[2], Width, Height)
                                           /\ manhattan(Step(src, d), dst) < manhattan(src, dst))
  IN IF closer = <<>> THEN NoDir
     ELSE closer[FirstMinIndex([i \in 1..Len(closer) |-> move_cost(w, Step(src, closer[i]))])]

endangered_spores(w, used, builders) ==
  Prefix(SelectSeq(actionable_sorted(w),
                   LAMBDA s : /\ s.id \notin used /\ s.id \notin builders
                              /\ \/ Get(threat_map, s.pos, 0) > 0
                                 \/ adjacent_enemy_max(s.pos, enemy_biomass_at(w)) > 0
                                 \/ s.biomass <= 2), 3)

\* the farthest unit of ours, at whatever distance
FarthestBuddy(w, s, builders) ==
  LET others == SelectSeq(w.mySpores, LAMBDA b : b.id # s.id /\ manhattan(s.pos, b.pos) # 0)
  IN IF others = <<>> THEN NoPoint
     ELSE others[FirstMaxIndex([i \in 1..Len(others) |-> manhattan(s.pos, others[i].pos)])].pos

\* the nearest unit of ours within 3 steps, the largest on a tie; NoPoint for None
best_buddy(w, s, builders) ==
  LET near == SelectSeq(w.mySpores,
                        LAMBDA b : /\ b.id # s.id /\ b.id \notin builders
                                   /\ manhattan(s.pos, b.pos) # 0
                                   /\ manhattan(s.pos, b.pos) <= 3)
      key(b) == manhattan(s.pos, b.pos) * 1000 - b.biomass
  IN IF near = <<>> THEN NoPoint
     ELSE near[FirstMinIndex([i \in 1..Len(near) |-> key(near[i])])].pos

\* the step of an endangered unit without the test of the threat map
MergeStepUntested(w, s, builders, by) ==
  LET buddy == best_buddy(w, s, builders)
      step == step_towards(w, s.pos, buddy)
  IN IF buddy = NoPoint THEN <<>>
     ELSE IF step = NoDir THEN <<>>
     ELSE IF s.biomass = 2 /\ move_cost(w, Step(s.pos, step)) = 1 THEN <<>>
     ELSE <<MkAction("move", s.id, NoPoint, step, 0, by)>>

\* what one endangered unit does (bot.py 1683-1716): a sequence of zero or one action
merge_step(w, s, builders, by) ==
  LET buddy == best_buddy(w, s, builders)
      step == step_towards(w, s.pos, buddy)
      npt == Step(s.pos, step)
  IN IF buddy = NoPoint THEN <<>>
     ELSE IF step = NoDir THEN <<>>
     ELSE IF Get(threat_map, npt, 0) >= s.biomass THEN <<>>
     ELSE IF s.biomass = 2 /\ move_cost(w, npt) = 1 THEN <<>>
     ELSE <<MkAction("move", s.id, NoPoint, step, 0, by)>>

\* the loop over endangered from unit i on; expiry is the iteration at which
\* time_left_fn() <= 0.003 first holds: <<appended actions, used_spores>>
RECURSIVE MergeLoop(_, _, _, _, _, _, _, _)
MergeLoop(w, endangered, i, expiry, acts, used, builders, by) ==
  IF i > Len(endangered) THEN <<acts, used>>
  ELSE
    LET s == endangered[i]
        done == merge_step(w, s, builders, by)
    IN IF i >= expiry \/ s.id \in used \/ s.id \in builders \/ done = <<>>
       THEN MergeLoop(w, endangered, i + 1, expiry, acts, used, builders, by)
       ELSE MergeLoop(w, endangered, i + 1, expiry, acts \o done, used \cup {s.id}, builders, by)

\* late is the answer of time_left_fn() <= 0.005
emergency_merge(w, used, builders, late, expiry, by) ==
  IF actionable_sorted(w) = <<>> \/ late THEN <<<<>>, used>>
  ELSE MergeLoop(w, endangered_spores(w, used, builders), 1, expiry, <<>>, used, builders, by)

----------------------------------------------------------------------------
(* _manage_spore_movement (bot.py 1719-1906).                              *)

\* defend_center (bot.py 1746); NoPoint for None
defend_center(w) == IF w.spawners # <<>> THEN spawner_pts(w)[1] ELSE NoPoint

\* hist[-2] of the unit's position history (bot.py 1767-1770); NoPoint for None
prev_point(sp) ==
  LET hist == Get(pos_hist_by_id, sp.id, <<>>)
  IN IF Len(hist) >= 2 THEN hist[Len(hist) - 1] ELSE NoPoint

\* the pioneer condition (bot.py 1776-1784)
is_pioneer_unit(w, sp, lane_target, is_defender, is_hunter) ==
  /\ sp.biomass = 2
  /\ lane_target # NoPoint
  /\ ~survival_mode(w)
  /\ ~is_defender
  /\ ~is_hunter
  /\ (Len(w.spawners) >= 1 \/ Len(actionable_spores(w)) >= 3)
  /\ manhattan(sp.pos, lane_target) >= 5

\* one pass for every unit
MovePassesSingle(sp, is_pioneer) == <<1>>

\* passes (bot.py 1797-1798)
move_passes(sp, is_pioneer) == IF sp.biomass = 2 /\ ~is_pioneer THEN <<0, 1>> ELSE <<1>>

\* the direction filter without the test of the threat map
MoveAllowedUntested(w, sp, d, pass_id) ==
  LET npt == Step(sp.pos, d)
      enemy_here == DictSeqGet(enemy_biomass_at(w), npt, 0)
  IN /\ in_bounds(npt[1], npt[2], Width, Height)
     /\ ~(enemy_here > 0 /\ sp.biomass <= enemy_here)
     /\ ~(pass_id = 0 /\ move_cost(w, npt) # 0)

\* the direction filter of bot.py 1802-1817
move_allowed(w, sp, d, pass_id) ==
  LET npt == Step(sp.pos, d)
      enemy_here == DictSeqGet(enemy_biomass_at(w), npt, 0)
  IN /\ in_bounds(npt[1], npt[2], Width, Height)
     /\ ~(Get(threat_map, npt, 0) >= sp.biomass)
     /\ ~(enemy_here > 0 /\ sp.biomass <= enemy_here)
     /\ ~(pass_id = 0 /\ move_cost(w, npt) # 0)

\* the score of one direction (bot.py 1819-1876)
move_score(w, sp, npt, is_defender, is_hunter, lane_target, penalty, my_center) ==
  LET eba == enemy_biomass_at(w)
      enemy_here == DictSeqGet(eba, npt, 0)
      center == defend_center(w)
      mine == tile_owner(w, npt) = w.yourTeamId
      prev_pt == prev_point(sp)
      role == IF is_hunter
              THEN (IF enemy_here > 0 THEN 450 + (sp.biomass - enemy_here) * 5 ELSE 0)
                   + tile_value(npt)
              ELSE IF is_defender /\ center # NoPoint
              THEN - manhattan(npt, center) * 35
                   + (IF mine THEN 30 ELSE 0)
                   + (tile_value(npt) \div 2)
              ELSE tile_value(npt) * 4
                   + (IF ~mine THEN 120 ELSE 0)
                   + (IF lane_target # NoPoint
                      THEN (manhattan(sp.pos, lane_target) - manhattan(npt, lane_target))
                             * (IF ~is_stagnant THEN 18 ELSE 26)
                           + (manhattan(npt, my_center) - manhattan(sp.pos, my_center))
                             * (IF ~is_stagnant THEN 12 ELSE 18)
                      ELSE 0)
                   - (IF map_type \in {"medium", "large"} /\ mine /\ manhattan(npt, my_center) <= 3
                      THEN 90 ELSE 0)
  IN role
     + (IF move_cost(w, npt) = 0 THEN 15 ELSE 0)
     + (IF enemy_here > 0 /\ sp.biomass > enemy_here
        THEN 450 + (sp.biomass - enemy_here) * 5 ELSE 0)
     - Get(threat_map, npt, 0) * 30
     - adjacent_enemy_max(npt, eba) * 20
     - (IF sp.biomass = 2 /\ move_cost(w, npt) = 1 THEN penalty ELSE 0)
     - (IF prev_pt # NoPoint /\ npt = prev_pt /\ Get(threat_map, sp.pos, 0) = 0
           /\ adjacent_enemy_max(sp.pos, eba) = 0
        THEN 220 ELSE 0)
     - (IF my_biomass_at(w, npt) > 0 THEN 20 ELSE 0)

\* the first direction that passes the filter, whatever its score
FirstAllowedDir(w, sp, pass_id, is_defender, is_hunter, lane_target, penalty, my_center) ==
  LET ok == SelectSeq(DIRS, LAMBDA d : move_allowed(w, sp, d, pass_id))
  IN IF ok = <<>> THEN NoDir ELSE ok[1]

\* the best direction of one pass; NoDir for None
best_dir_of_pass(w, sp, pass_id, is_defender, is_hunter, lane_target, penalty, my_center) ==
  LET ok == SelectSeq(DIRS, LAMBDA d : move_allowed(w, sp, d, pass_id))
  IN IF ok = <<>> THEN NoDir
     ELSE ok[FirstMaxIndex([i \in 1..Len(ok) |->
               move_score(w, sp, Step(sp.pos, ok[i]), is_defender, is_hunter,
                          lane_target, penalty, my_center)])]

\* the passes in turn, stopping at the first that finds a direction
RECURSIVE best_dir_of(_, _, _, _, _, _, _, _, _)
best_dir_of(w, sp, passes, i, is_defender, is_hunter, lane_target, penalty, my_center) ==
  IF i > Len(passes) THEN NoDir
  ELSE LET found == best_dir_of_pass(w, sp, passes[i], is_defender, is_hunter,
                                     lane_target, penalty, my_center)
       IN IF found # NoDir THEN found
          ELSE best_dir_of(w, sp, passes, i + 1, is_defender, is_hunter,
                           lane_target, penalty, my_center)

\* what one unit does (bot.py 1755-1906): <<zero or one action, _lane_by_spore_id>>
move_unit(w, sp, lanes, penalty_2biomass, my_center, by) ==
  LET is_defender == sp.id \in defender_ids
      is_hunter == sp.id \in hunter_ids
      with_lane == ~is_defender /\ ~is_hunter
                   /\ (map_type \in {"medium", "large"} \/ is_stagnant)
      assigned == assign_lane(lanes, sp.id, sp.pos, my_center, tick_count)
      lane_target == IF with_lane THEN Get(lane_targets, assigned[1], NoPoint) ELSE NoPoint
      lanes_after == IF with_lane THEN assigned[2] ELSE lanes
      is_pioneer == is_pioneer_unit(w, sp, lane_target, is_defender, is_hunter)
      penalty == IF is_pioneer THEN Max2(20, penalty_2biomass \div 3) ELSE penalty_2biomass
      center == defend_center(w)
      idle == /\ is_defender /\ center # NoPoint
              /\ manhattan(sp.pos, center) <= 2
              /\ Get(threat_map, sp.pos, 0) = 0
              /\ adjacent_enemy_max(sp.pos, enemy_biomass_at(w)) = 0
      best_dir == best_dir_of(w, sp, move_passes(sp, is_pioneer), 1, is_defender, is_hunter,
                              lane_target, penalty, my_center)
  IN IF idle THEN << <<>>, lanes_after >>
     ELSE IF best_dir # NoDir
     THEN << <<MkAction("move", sp.id, NoPoint, best_dir, 0, by)>>, lanes_after >>
     ELSE IF is_defender /\ center # NoPoint
     THEN << <<MkAction("moveto", sp.id, center, NoDir, 0, by)>>, lanes_after >>
     ELSE IF lane_target # NoPoint /\ Get(threat_map, lane_target, 0) < sp.biomass
     THEN << <<MkAction("moveto", sp.id, lane_target, NoDir, 0, by)>>, lanes_after >>
     ELSE << <<>>, lanes_after >>

\* the loop over actionable_sorted from unit i on; expiry is the iteration at which
\* time_left_fn() <= 0.002 first holds: <<appended actions, used_spores,
\* _lane_by_spore_id>>
RECURSIVE MoveLoop(_, _, _, _, _, _, _, _, _, _, _)
MoveLoop(w, units, i, expiry, acts, used, builders, lanes, penalty_2biomass, my_center, by) ==
  IF i > Len(units) \/ i >= expiry THEN <<acts, used, lanes>>
  ELSE
    LET sp == units[i]
        moved == move_unit(w, sp, lanes, penalty_2biomass, my_center, by)
    IN IF sp.id \in used \/ sp.id \in builders
       THEN MoveLoop(w, units, i + 1, expiry, acts, used, builders, lanes,
                     penalty_2biomass, my_center, by)
       ELSE MoveLoop(w, units, i + 1, expiry, acts \o moved[1],
                     IF moved[1] # <<>> THEN used \cup {sp.id} ELSE used,
                     builders, moved[2], penalty_2biomass, my_center, by)

manage_spore_movement(w, used, builders, lanes, expiry, by) ==
  MoveLoop(w, actionable_sorted(w), 1, expiry, <<>>, used, builders, lanes,
           improved_2biomass_penalty(map_type, tick_count, cached_my_tile_count,
                                     Width * Height, Len(w.spawners), is_stagnant,
                                     cached_nutrient_generation),
           calculate_my_center(w), by)

----------------------------------------------------------------------------
(* Bot._update_position_history (bot.py 897-916): the last four positions  *)
(* of every living unit.                                                   *)

HistoryLen == 4

\* a history that keeps the entries of the units that have left the snapshot
HistoryNeverPruned(hist, my_spores) ==
  LET live == {my_spores[i].id : i \in 1..Len(my_spores)}
      pos_of(id) == my_spores[CHOOSE i \in 1..Len(my_spores) : my_spores[i].id = id].pos
      pushed(id) == Append(Get(hist, id, <<>>), pos_of(id))
  IN [id \in live \cup DOMAIN hist |->
        IF id \notin live THEN hist[id]
        ELSE IF Len(pushed(id)) > HistoryLen THEN Tail(pushed(id)) ELSE pushed(id)]

update_position_history(hist, my_spores) ==
  LET live == {my_spores[i].id : i \in 1..Len(my_spores)}
      pos_of(id) == my_spores[CHOOSE i \in 1..Len(my_spores) : my_spores[i].id = id].pos
      pushed(id) == Append(Get(hist, id, <<>>), pos_of(id))
  IN [id \in live |-> IF Len(pushed(id)) > HistoryLen THEN Tail(pushed(id)) ELSE pushed(id)]

----------------------------------------------------------------------------
(* The time budget of one call (bot.py 1915-1923).  time_left() only       *)
(* falls during a call.  The thresholds it is compared with are numbered   *)
(* by TimeLevels; time_bound is the lowest level that a test has found     *)
(* time_left() at or under, NoTimeBound when none has.                     *)

\* 1: <= 0.0 (out_of_time), 2: <= 0.002, 3: <= 0.003, 4: <= 0.005, 5: <= 0.010
TimeLevels == <<"out_of_time", "movement_unit", "merge_unit", "merge", "split">>
LevelOf(name) == CHOOSE k \in 1..Len(TimeLevels) : TimeLevels[k] = name
NoTimeBound == Len(TimeLevels) + 1

\* the answers a test of time_left() against the threshold can give
TimeCheck(name) == IF time_bound <= LevelOf(name) THEN {TRUE} ELSE {TRUE, FALSE}

\* a clock whose earlier answers bind no later test
AfterCheckForgets(bound, name, late) == bound

\* time_bound after the test answered late
AfterCheck(bound, name, late) == IF late THEN Min2(bound, LevelOf(name)) ELSE bound

\* the iterations at which a test made on each of n iterations can first answer true;
\* n + 1 when it never does
Expiries(bound, name, n) == IF bound <= LevelOf(name) THEN {1} ELSE 1..(n + 1)

----------------------------------------------------------------------------
(* The snapshots the game sends.  A layout places units as pairs           *)
(* <<cell, biomass>>; a trail is a set of cells of ours that hold one      *)
(* biomass and no unit.                                                    *)

EnemyTeamId == MyTeamId + 1

MyIds == <<"s1", "s2", "s3">>
EnemyIds == <<"e1", "e2">>
NeutralIds == <<"n1", "n2", "n3", "n4", "n5">>
SpawnerIds == <<"p1", "p2">>

MkSpores(ids, layout, team) ==
  [i \in 1..Len(layout) |->
     [id |-> ids[i], pos |-> layout[i][1], biomass |-> layout[i][2], teamId |-> team]]

CellsOf(layout) == {layout[i][1] : i \in 1..Len(layout)}

BiomassOn(layout, c) ==
  SeqSum([i \in 1..Len(layout) |-> IF layout[i][1] = c THEN layout[i][2] ELSE 0])

MkWorld(t, units, enemies, neutrals, trail, spawner_cells, nutrients, cost) ==
  LET mine == CellsOf(units) \cup trail \cup {spawner_cells[i] : i \in 1..Len(spawner_cells)}
  IN [tick |-> t,
      yourTeamId |-> MyTeamId,
      ownershipGrid |-> [c \in AllCells |->
                           IF c \in CellsOf(enemies) THEN EnemyTeamId
                           ELSE IF c \in mine THEN MyTeamId ELSE 0],
      biomassGrid |-> [c \in AllCells |->
                         BiomassOn(units, c) + BiomassOn(enemies, c) + BiomassOn(neutrals, c)
                         + (IF c \in trail \ CellsOf(units) THEN 1 ELSE 0)],
      spores |-> MkSpores(MyIds, units, MyTeamId) \o MkSpores(EnemyIds, enemies, EnemyTeamId)
                 \o MkSpores(NeutralIds, neutrals, 0),
      mySpores |-> MkSpores(MyIds, units, MyTeamId),
      spawners |-> [i \in 1..Len(spawner_cells) |-> [id |-> SpawnerIds[i], pos |-> spawner_cells[i]]],
      nutrients |-> nutrients,
      nextSpawnerCost |-> cost]

UnitLayouts ==
  { << <<<<3, 0>>, 6>>, <<<<0, 1>>, 2>> >>,
    << <<<<3, 2>>, 3>>, <<<<1, 0>>, 6>>, <<<<0, 2>>, 1>> >>,
    << <<<<2, 1>>, 7>>, <<<<1, 0>>, 4>>, <<<<0, 0>>, 2>> >> }

EnemyLayouts ==
  { <<>>,
    << <<<<3, 1>>, 4>> >>,
    << <<<<1, 1>>, 4>> >>,
    << <<<<0, 2>>, 1>> >>,
    << <<<<2, 1>>, 9>>, <<<<0, 2>>, 1>> >>,
    << <<<<3, 1>>, 4>>, <<<<3, 2>>, 9>> >> }

NeutralLayouts == { <<>>, << <<<<2, 2>>, 2>> >> }

TrailLayouts == { {}, {<<1, 1>>, <<0, 0>>, <<2, 2>>} }

SpawnerLayouts == { <<>>, << <<0, 0>> >>, << <<0, 0>>, <<1, 2>> >> }

NutrientLevels == {0, 40}

SpawnerCosts == {4}

\* no two teams share a cell; nutrients are banked once a spawner stands
Compatible(units, enemies, neutrals, trail, spawner_cells) ==
  LET others == CellsOf(enemies) \cup CellsOf(neutrals)
  IN /\ CellsOf(units) \cap others = {}
     /\ CellsOf(enemies) \cap CellsOf(neutrals) = {}
     /\ trail \cap others = {}
     /\ {spawner_cells[i] : i \in 1..Len(spawner_cells)} \cap others = {}

FirstSnapshots ==
  { MkWorld(1, u, e, n, t, s, nu, c) :
      <<u, e, n, t, s, nu, c>> \in
        { q \in UnitLayouts \X EnemyLayouts \X NeutralLayouts \X TrailLayouts
                \X SpawnerLayouts \X NutrientLevels \X SpawnerCosts :
            /\ Compatible(q[1], q[2], q[3], q[4], q[5])
            /\ (q[5] = <<>> => q[6] = 0) } }

\* a team of one unit on a grid without enemies and without spawners
SoloLayouts == { << <<<<0, 0>>, 6>> >>, << <<<<3, 0>>, 6>> >> }

SoloSnapshots ==
  { MkWorld(1, u, <<>>, n, t, <<>>, 0, c) :
      <<u, n, t, c>> \in SoloLayouts \X NeutralLayouts \X TrailLayouts \X SpawnerCosts }

\* a team with one spawner whose strongest unit is short of nextSpawnerCost + 2
ShortSnapshots ==
  { MkWorld(1, << <<<<3, 0>>, 6>>, <<<<0, 1>>, 2>> >>, <<>>, n, t, << <<0, 0>> >>, 40, 5) :
      <<n, t>> \in NeutralLayouts \X TrailLayouts }

\* a team with two spawners of which the second alone is under threat; its
\* strongest unit stands two cells from the second spawner and five from the first
OutpostSnapshots ==
  { MkWorld(1, << <<<<3, 2>>, 5>>, <<<<0, 0>>, 2>> >>, << <<<<0, 2>>, 1>> >>, <<>>, {},
            << <<0, 0>>, <<1, 2>> >>, 0, c) : c \in SpawnerCosts }

\* the snapshot of the next tick
NextSnapshots(w) == { [w EXCEPT !.tick = @ + 1] }

MaxTick == 61

----------------------------------------------------------------------------
(* get_next_move (bot.py 1909-2133), one action for its prelude and one    *)
(* for each phase.  pc is "wait" between calls and otherwise names the     *)
(* phase the call is about to enter.                                       *)

Phases == <<"build_first", "build_second", "produce", "combat", "split", "merge", "move">>
PhaseRank(name) == CHOOSE k \in 1..Len(Phases) : Phases[k] = name

\* the checkpoint at the head of a phase found the budget exhausted
Exhausted(phase) ==
  /\ time_bound' = AfterCheck(time_bound, "out_of_time", TRUE)
  /\ cut_at' = IF cut_at = None THEN phase ELSE cut_at

\* bot.py 1909-2039: indexing of the snapshot and the state carried between calls
NewTick ==
  /\ pc = "wait"
  /\ tick_count < MaxTick
  /\ \E w \in (IF tick_count = 0 THEN FirstSnapshots \cup SoloSnapshots \cup ShortSnapshots
                                        \cup OutpostSnapshots
                                   ELSE NextSnapshots(world)) :
       LET tm == build_threat_map(enemy_biomass_at(w), Width, Height)
           first_call == map_type = ""
           mtype == IF first_call THEN analyze_map_type(Width, Height, neutral_spores(w))
                    ELSE map_type
           picked == pick_lane_targets(lane_targets_store, ensure_top_tiles_cache,
                                       calculate_my_center(w), w.tick, is_stagnant', w, tm)
           with_lanes == mtype \in {"medium", "large"} \/ is_stagnant'
       IN /\ world' = w
          /\ tick_count' = w.tick
          /\ total_spore_count' = IF total_spore_count = NoneInt /\ w.tick = 1
                                  THEN Len(w.mySpores) ELSE total_spore_count
          /\ top_tiles_cache' = ensure_top_tiles_cache
          /\ map_type' = mtype
          /\ map_type_cache' = IF first_call
                               THEN map_type_cache_after(Width, Height, neutral_spores(w))
                               ELSE map_type_cache
          /\ TerritoryStep(w)
          /\ threat_map' = tm
          /\ lane_targets' = IF with_lanes THEN picked[1] ELSE EmptyDict
          /\ lane_targets_store' = IF with_lanes THEN picked[2] ELSE lane_targets_store
          /\ pos_hist_by_id' = update_position_history(pos_hist_by_id, w.mySpores)
          /\ first_spawner_tick' = IF Len(w.spawners) > 0 /\ first_spawner_tick = NoneInt
                                   THEN w.tick ELSE first_spawner_tick
  /\ used_spores' = {}
  /\ used_spawners' = {}
  /\ builder_ids' = {}
  /\ hunter_ids' = {}
  /\ defender_ids' = {}
  /\ actions' = <<>>
  /\ time_bound' = NoTimeBound
  /\ cut_at' = None
  /\ pc' = "build_first"
  /\ UNCHANGED <<planned_sites, lane_by_spore_id, fnvars, unchanged_since>>

\* bot.py 2042-2048
BuildFirstPhase ==
  /\ pc = "build_first"
  /\ \E late \in TimeCheck("out_of_time") :
       IF late
       THEN /\ Exhausted("build_first")
            /\ UNCHANGED <<actions, used_spores, builder_ids, planned_sites>>
       ELSE LET built == IF Len(world.spawners) = 0
                         THEN build_first_spawner(world, used_spores, builder_ids, "build_first")
                         ELSE BuildResult(<<>>, used_spores, builder_ids, planned_sites)
            IN /\ actions' = actions \o built.acts
               /\ used_spores' = built.used
               /\ builder_ids' = built.builders
               /\ planned_sites' = built.planned
               /\ UNCHANGED <<time_bound, cut_at>>
  /\ pc' = "build_second"
  /\ UNCHANGED <<world, tick_count, map_type, map_type_cache, top_tiles_cache,
                 first_spawner_tick, total_spore_count, lane_targets_store,
                 lane_by_spore_id, pos_hist_by_id, territory, threat_map, is_stagnant,
                 lane_targets, used_spawners, hunter_ids, defender_ids, fnvars,
                 unchanged_since>>

\* bot.py 2050-2057
BuildSecondPhase ==
  /\ pc = "build_second"
  /\ \E late \in TimeCheck("out_of_time") :
       IF late
       THEN /\ Exhausted("build_second")
            /\ UNCHANGED <<actions, used_spores, builder_ids, planned_sites>>
       ELSE LET built == IF Len(world.spawners) = 1
                         THEN build_second_spawner(world, used_spores, builder_ids,
                                                   cached_my_tile_count, Width * Height,
                                                   "build_second")
                         ELSE BuildResult(<<>>, used_spores, builder_ids, planned_sites)
            IN /\ actions' = actions \o built.acts
               /\ used_spores' = built.used
               /\ builder_ids' = built.builders
               /\ planned_sites' = built.planned
               /\ UNCHANGED <<time_bound, cut_at>>
  /\ pc' = "produce"
  /\ UNCHANGED <<world, tick_count, map_type, map_type_cache, top_tiles_cache,
                 first_spawner_tick, total_spore_count, lane_targets_store,
                 lane_by_spore_id, pos_hist_by_id, territory, threat_map, is_stagnant,
                 lane_targets, used_spawners, hunter_ids, defender_ids, fnvars,
                 unchanged_since>>

\* bot.py 2059-2067
ProducePhase ==
  /\ pc = "produce"
  /\ \E late \in TimeCheck("out_of_time") :
       IF late
       THEN /\ Exhausted("produce")
            /\ pc' = "wait"
            /\ UNCHANGED <<actions, used_spawners>>
       ELSE LET made == manage_spawner_production(world, used_spawners, cached_my_tile_count,
                                                  cached_nutrient_generation, is_stagnant,
                                                  "produce")
            IN /\ actions' = actions \o made[1]
               /\ used_spawners' = made[2]
               /\ pc' = "combat"
               /\ UNCHANGED <<time_bound, cut_at>>
  /\ UNCHANGED <<world, persistent, territory, threat_map, is_stagnant, lane_targets,
                 used_spores, builder_ids, hunter_ids, defender_ids, fnvars,
                 unchanged_since>>

\* bot.py 2069-2095
CombatPhase ==
  /\ pc = "combat"
  /\ \E late \in TimeCheck("out_of_time") :
       IF late
       THEN /\ Exhausted("combat")
            /\ pc' = "wait"
            /\ UNCHANGED <<actions, used_spores, hunter_ids, defender_ids>>
       ELSE LET soft_targets == find_combat_targets(world, builder_ids, used_spores)
            IN \E expiry \in Expiries(time_bound, "out_of_time", Len(soft_targets)) :
                 LET hunted == HunterLoop(soft_targets, 1, expiry, <<>>, used_spores, {},
                                          "combat")
                 IN /\ actions' = actions \o hunted[1]
                    /\ used_spores' = hunted[2]
                    /\ hunter_ids' = hunted[3]
                    /\ defender_ids' = assign_defenders(world, builder_ids, hunted[3], hunted[2])
                    /\ time_bound' = AfterCheck(time_bound, "out_of_time", hunted[4])
                    /\ pc' = "split"
                    /\ UNCHANGED cut_at
  /\ UNCHANGED <<world, persistent, territory, threat_map, is_stagnant, lane_targets,
                 used_spawners, builder_ids, fnvars, unchanged_since>>

\* bot.py 2097-2107
SplitPhase ==
  /\ pc = "split"
  /\ \E late \in TimeCheck("out_of_time") :
       IF late
       THEN /\ Exhausted("split")
            /\ pc' = "wait"
            /\ UNCHANGED <<actions, used_spores>>
       ELSE \E short \in TimeCheck("split") :
              LET asked == ~survival_mode(world) /\ Len(world.mySpores) < MaxSporesForSplit
                  done == attempt_splits(world, used_spores, builder_ids, short, "split")
              IN /\ actions' = actions \o done[1]
                 /\ used_spores' = done[2]
                 /\ time_bound' = AfterCheck(time_bound, "split", asked /\ short)
                 /\ pc' = "merge"
                 /\ UNCHANGED cut_at
  /\ UNCHANGED <<world, persistent, territory, threat_map, is_stagnant, lane_targets,
                 used_spawners, builder_ids, hunter_ids, defender_ids, fnvars,
                 unchanged_since>>

\* bot.py 2109-2119
MergePhase ==
  /\ pc = "merge"
  /\ \E late \in TimeCheck("out_of_time") :
       IF late
       THEN /\ Exhausted("merge")
            /\ pc' = "wait"
            /\ UNCHANGED <<actions, used_spores>>
       ELSE \E short \in TimeCheck("merge") :
              LET asked == actionable_sorted(world) # <<>>
                  n == Len(endangered_spores(world, used_spores, builder_ids))
                  entered == AfterCheck(time_bound, "merge", asked /\ short)
              IN \E expiry \in Expiries(entered, "merge_unit", n) :
                   LET done == emergency_merge(world, used_spores, builder_ids, short,
                                               expiry, "merge")
                   IN /\ actions' = actions \o done[1]
                      /\ used_spores' = done[2]
                      /\ time_bound' = AfterCheck(entered, "merge_unit",
                                                  asked /\ ~short /\ expiry <= n)
                      /\ pc' = "move"
                      /\ UNCHANGED cut_at
  /\ UNCHANGED <<world, persistent, territory, threat_map, is_stagnant, lane_targets,
                 used_spawners, builder_ids, hunter_ids, defender_ids, fnvars,
                 unchanged_since>>

\* bot.py 2121-2133
MovePhase ==
  /\ pc = "move"
  /\ \E late \in TimeCheck("out_of_time") :
       IF late
       THEN /\ Exhausted("move")
            /\ UNCHANGED <<actions, used_spores, lane_by_spore_id>>
       ELSE \E expiry \in Expiries(time_bound, "movement_unit", Len(actionable_sorted(world))) :
              LET done == manage_spore_movement(world, used_spores, builder_ids,
                                                lane_by_spore_id, expiry, "move")
              IN /\ actions' = actions \o done[1]
                 /\ used_spores' = done[2]
                 /\ lane_by_spore_id' = done[3]
                 /\ time_bound' = AfterCheck(time_bound, "movement_unit",
                                             expiry <= Len(actionable_sorted(world)))
                 /\ UNCHANGED cut_at
  /\ pc' = "wait"
  /\ UNCHANGED <<world, tick_count, map_type, map_type_cache, top_tiles_cache,
                 planned_sites, first_spawner_tick, total_spore_count, lane_targets_store,
                 pos_hist_by_id, territory, threat_map, is_stagnant, lane_targets,
                 used_spawners, builder_ids, hunter_ids, defender_ids, fnvars,
                 unchanged_since>>

Init ==
  /\ InitBot /\ InitLocals
  /\ world = NoWorld
  /\ pc = "wait"
  /\ fn_in = <<>>
  /\ fn_out = <<>>
  /\ unchanged_since = 0

Next ==
  \/ NewTick
  \/ BuildFirstPhase
  \/ BuildSecondPhase
  \/ ProducePhase
  \/ CombatPhase
  \/ SplitPhase
  \/ MergePhase
  \/ MovePhase

Spec == Init /\ [][Next]_vars

----------------------------------------------------------------------------
(* Properties of the action list.                                          *)

UnitKinds == {"create", "move", "moveto", "split"}

ActionsOf(kinds) == {i \in 1..Len(actions) : actions[i].kind \in kinds}

\* the unit of ours an action names
SporeOf(id) == world.mySpores[CHOOSE i \in 1..Len(world.mySpores) : world.mySpores[i].id = id]

\* the cell a movement action sends its unit to
TargetOf(a) == IF a.kind = "moveto" THEN a.pos ELSE Step(SporeOf(a.id).pos, a.dir)

ThreatAt(c) == Get(threat_map, c, 0)

IsTrail(c) == world.ownershipGrid[c] = world.yourTeamId /\ world.biomassGrid[c] >= 1

\* C1: at every point of a call, whatever the point at which the time budget runs
\* out, the action list holds at most one action per unit id (create, move,
\* move-to and split together) and at most one produce action per spawner id.
C1_OneActionPerId ==
  /\ \A i, j \in ActionsOf(UnitKinds) : actions[i].id = actions[j].id => i = j
  /\ \A i, j \in ActionsOf({"produce"}) : actions[i].id = actions[j].id => i = j

\* a returned list in which four phases have each committed a different unit and a
\* spawner has produced
C1_Witness ==
  /\ pc = "wait"
  /\ Cardinality(ActionsOf(UnitKinds)) >= 3
  /\ Cardinality({actions[i].by : i \in ActionsOf(UnitKinds)}) >= 3
  /\ ActionsOf({"produce"}) # {}

\* C3: every single-step move the movement phase commits leads to an in-bounds
\* cardinal neighbour whose threat is below the mover's biomass and which holds no
\* enemy of the mover's biomass or more.
C3_MovementStepIsSafe ==
  \A i \in ActionsOf({"move"}) :
    actions[i].by = "move" =>
      LET sp == SporeOf(actions[i].id)
          npt == TargetOf(actions[i])
      IN /\ InSeq(actions[i].dir, DIRS)
         /\ in_bounds(npt[1], npt[2], Width, Height)
         /\ ThreatAt(npt) < sp.biomass
         /\ DictSeqGet(enemy_biomass_at(world), npt, 0) < sp.biomass

\* the movement phase has moved a unit that had a neighbour too dangerous for it
C3_Witness ==
  \E i \in ActionsOf({"move"}) :
    /\ actions[i].by = "move"
    /\ \E k \in 1..Len(DIRS) :
         LET other == Step(SporeOf(actions[i].id).pos, DIRS[k])
         IN /\ in_bounds(other[1], other[2], Width, Height)
            /\ ThreatAt(other) >= SporeOf(actions[i].id).biomass

\* the site a building phase has locked
LockedSite(by) ==
  Get(planned_sites, IF by = "build_first" THEN "first" ELSE "second", NoPoint)

\* C4: whenever a create action is in the list, for the first or the second
\* spawner, its unit stands on the locked site and its biomass is at least the
\* team's nextSpawnerCost.
C4_CreateOnSiteWithCost ==
  \A i \in ActionsOf({"create"}) :
    /\ SporeOf(actions[i].id).pos = LockedSite(actions[i].by)
    /\ SporeOf(actions[i].id).biomass >= world.nextSpawnerCost

\* a create action for the second spawner, in a team that also has a unit too
\* small to be its builder
C4_Witness ==
  /\ \E i \in ActionsOf({"create"}) : actions[i].by = "build_second"
  /\ world.nextSpawnerCost > 0
  /\ \E k \in 1..Len(world.mySpores) : world.mySpores[k].biomass < world.nextSpawnerCost + 2

\* C7: once a checkpoint at the head of a phase has found the budget exhausted,
\* that phase and the later ones append nothing: every action in the list comes
\* from an earlier phase, and no step of the call changes the list any more.
C7_NothingAfterExhaustion ==
  /\ [](cut_at # None =>
          \A i \in 1..Len(actions) : PhaseRank(actions[i].by) < PhaseRank(cut_at))
  /\ [][(cut_at' # None) => actions' = actions]_vars

\* the budget was found exhausted at the head of the movement phase of a call whose
\* earlier phases had committed actions, and the call has returned them
C7_Witness ==
  /\ pc = "wait"
  /\ cut_at = "move"
  /\ actions # <<>>
  /\ \E k \in 1..Len(world.mySpores) :
       /\ world.mySpores[k].biomass >= 2
       /\ world.mySpores[k].id \notin used_spores \cup builder_ids

\* the biomass that a movement action moves: the detached half for a split
MoverBiomass(a) == IF a.kind = "split" THEN a.biomass ELSE SporeOf(a.id).biomass

MovementKinds == {"move", "moveto", "split"}

\* C2 as stated: no movement action of any kind (single-step move, move-to of a
\* builder, hunter, defender or lane fallback, detached half of a split) targets a
\* cell whose threat is at or above the biomass that moves.
C2_NoMovementIntoThreat ==
  \A i \in ActionsOf(MovementKinds) :
    ThreatAt(TargetOf(actions[i])) < MoverBiomass(actions[i])

\* the movement actions whose target the code tests against the threat map: the
\* single steps of the merge and movement phases, the lane fallback move-to of the
\* movement phase, and the direction of a split
ThreatTested(a) ==
  \/ a.kind = "move"
  \/ a.kind = "split"
  \/ (a.kind = "moveto" /\ a.by = "move" /\ a.id \notin defender_ids)

\* C2 amended: a single-step move, a lane fallback move-to and a split never
\* target a cell whose threat is at or above the acting unit's whole biomass; the
\* move-to of a builder, of a hunter and of a defender falling back to its
\* spawner is not tested against the threat map.
C2_TestedMovementAvoidsThreat ==
  \A i \in ActionsOf(MovementKinds) :
    ThreatTested(actions[i]) =>
      ThreatAt(TargetOf(actions[i])) < SporeOf(actions[i].id).biomass

\* the merge phase has stepped a unit to a cell that is safe for it although a
\* neighbour of the unit was too dangerous
C2_Witness ==
  \E i \in ActionsOf({"move"}) :
    /\ actions[i].by = "merge"
    /\ \E k \in 1..Len(DIRS) :
         ThreatAt(Step(SporeOf(actions[i].id).pos, DIRS[k])) >= SporeOf(actions[i].id).biomass

----------------------------------------------------------------------------
(* Scenario B: a unit of ours of biomass 6 next to an enemy of biomass 4. *)

Pairs(w) == {<<k, j>> \in (1..Len(w.mySpores)) \X (1..Len(enemy_biomass_at(w))) :
               /\ w.mySpores[k].biomass = 6
               /\ enemy_biomass_at(w)[j][2] = 4
               /\ manhattan(w.mySpores[k].pos, enemy_biomass_at(w)[j][1]) = 1}

\* the enemy is the only unit that is not ours
NothingElse(w) == Len(enemy_biomass_at(w)) = 1 /\ neutral_spores(w) = <<>>

\* the combat phase has just run to its end with time to spare
CombatDone == pc = "split" /\ time_bound = NoTimeBound

HuntedAt(id, c) ==
  /\ id \in hunter_ids
  /\ \E i \in ActionsOf({"moveto"}) : actions[i].id = id /\ actions[i].pos = c

\* C9 as stated: with a unit of biomass 6 at distance 1 from an enemy of biomass
\* 4 and nothing else constraining, the call emits a move-to for that unit at the
\* enemy's cell.
C9_SixHuntsFour ==
  (CombatDone /\ NothingElse(world)) =>
    \A q \in Pairs(world) :
      HuntedAt(world.mySpores[q[1]].id, enemy_biomass_at(world)[q[2]][1])

\* no unit listed before unit k is as good an attacker of the cell c
FirstNearest(w, k, c) ==
  \A m \in 1..(k - 1) :
    ~(/\ w.mySpores[m].biomass > 5
      /\ w.mySpores[m].id \notin builder_ids
      /\ manhattan(w.mySpores[m].pos, c) <= 1)

\* C9 amended: the unit of biomass 6 is sent to the enemy's cell when the team
\* is not in survival mode, the unit has not been taken as a builder in this
\* call, the nutrient value of the enemy's cell plus the enemy's biomass is above
\* 20, and no unit listed before it is as near and strong enough.
C9_SixHuntsFourForProfit ==
  (CombatDone /\ NothingElse(world)) =>
    \A q \in Pairs(world) :
      LET sp == world.mySpores[q[1]]
          ept == enemy_biomass_at(world)[q[2]][1]
      IN (/\ ~survival_mode(world)
          /\ sp.id \notin builder_ids
          /\ tile_value(ept) + 4 > ProfitFloor
          /\ FirstNearest(world, q[1], ept))
         => HuntedAt(sp.id, ept)

\* the unit of biomass 6 has been sent to the cell of the enemy of biomass 4
C9_Witness ==
  /\ CombatDone /\ NothingElse(world)
  /\ \E q \in Pairs(world) :
       HuntedAt(world.mySpores[q[1]].id, enemy_biomass_at(world)[q[2]][1])

----------------------------------------------------------------------------
(* Scenario C: units of biomass 2 keep to the trail.                       *)

\* the lane target the movement phase gave a unit; NoPoint for None
LaneTargetOf(sp) ==
  IF /\ (map_type \in {"medium", "large"} \/ is_stagnant)
     /\ sp.id \notin defender_ids \cup hunter_ids
     /\ sp.id \in DOMAIN lane_by_spore_id
  THEN Get(lane_targets, lane_by_spore_id[sp.id][1], NoPoint)
  ELSE NoPoint

PioneerNow(sp) ==
  is_pioneer_unit(world, sp, LaneTargetOf(sp), sp.id \in defender_ids, sp.id \in hunter_ids)

\* an in-bounds neighbour that the unit may enter
SafeNeighbour(sp, c) ==
  /\ in_bounds(c[1], c[2], Width, Height)
  /\ ThreatAt(c) < sp.biomass
  /\ DictSeqGet(enemy_biomass_at(world), c, 0) < sp.biomass

Neighbours(sp) == {Step(sp.pos, DIRS[k]) : k \in 1..Len(DIRS)}

\* C10: in the movement phase a unit of biomass 2 that is not a pioneer never
\* steps onto a non-trail cell when a safe in-bounds neighbour is a trail cell.
C10_TwoBiomassKeepsToTrail ==
  \A i \in ActionsOf({"move"}) :
    LET sp == SporeOf(actions[i].id)
    IN (/\ actions[i].by = "move"
        /\ sp.biomass = 2
        /\ ~PioneerNow(sp)
        /\ \E c \in Neighbours(sp) : SafeNeighbour(sp, c) /\ IsTrail(c))
       => IsTrail(TargetOf(actions[i]))

\* a unit of biomass 2 that is not a pioneer has stepped onto a trail cell
\* although it had a safe neighbour off the trail
C10_Witness ==
  \E i \in ActionsOf({"move"}) :
    LET sp == SporeOf(actions[i].id)
    IN /\ actions[i].by = "move"
       /\ sp.biomass = 2
       /\ ~PioneerNow(sp)
       /\ IsTrail(TargetOf(actions[i]))
       /\ \E c \in Neighbours(sp) : SafeNeighbour(sp, c) /\ ~IsTrail(c)

----------------------------------------------------------------------------
(* Scenario A: a lone unit builds the first spawner.                       *)

\* no spawner, no enemy, one friendly unit of biomass 6, nextSpawnerCost 4
LoneBuilder(w) ==
  /\ Len(w.spawners) = 0
  /\ enemy_list(w) = <<>>
  /\ Len(w.mySpores) = 1
  /\ w.mySpores[1].biomass = 6
  /\ w.nextSpawnerCost = 4

\* get_next_move has run its first building phase within the time budget
FirstBuildDone == tick_count > 0 /\ pc \notin {"build_first"} /\ cut_at # "build_first"

BuildActions == {i \in 1..Len(actions) : actions[i].by \in {"build_first", "build_second"}}

\* C11: with no spawner, no enemy, one friendly unit of biomass 6, cost 4 and a
\* tick past the forced-build threshold, the building phases emit exactly one
\* action, for that unit: create when it stands on the selected site, otherwise
\* move-to at the selected site; the site is stored in _planned_sites and the
\* stored site does not change on the following ticks.
C11_LoneBuilderActs ==
  /\ [](  (FirstBuildDone /\ LoneBuilder(world) /\ tick_count > ForcedAfter(map_type))
         => /\ "first" \in DOMAIN planned_sites
            /\ Cardinality(BuildActions) = 1
            /\ \A i \in BuildActions :
                 /\ actions[i].id = world.mySpores[1].id
                 /\ IF world.mySpores[1].pos = planned_sites["first"]
                    THEN actions[i].kind = "create"
                    ELSE actions[i].kind = "moveto" /\ actions[i].pos = planned_sites["first"])
  /\ [][ (tick_count > 0 /\ LoneBuilder(world) /\ "first" \in DOMAIN planned_sites)
         => ("first" \in DOMAIN planned_sites' /\ planned_sites'["first"] = planned_sites["first"]) ]_vars

\* past the threshold the lone unit walks to a site it does not stand on
C11_Witness ==
  /\ FirstBuildDone /\ LoneBuilder(world) /\ tick_count > ForcedAfter(map_type) + 1
  /\ world.mySpores[1].pos # LockedSite("build_first")
  /\ \E i \in BuildActions : actions[i].kind = "moveto"

----------------------------------------------------------------------------
(* Eligibility.                                                            *)

\* C13: every create, move, move-to and split action in the list names a
\* friendly unit of the snapshot whose biomass is at least 2, so a unit of
\* biomass below 2 receives no action.
C13_ActionsOnlyForActionable ==
  \A i \in ActionsOf(UnitKinds) :
    \E k \in 1..Len(world.mySpores) :
      world.mySpores[k].id = actions[i].id /\ world.mySpores[k].biomass >= 2

\* a complete call that moved units of a team holding a unit of biomass 1
C13_Witness ==
  /\ pc = "wait" /\ tick_count > 0 /\ cut_at = None
  /\ \E i \in ActionsOf(UnitKinds) : actions[i].by = "move"
  /\ \E k \in 1..Len(world.mySpores) : world.mySpores[k].biomass < 2

----------------------------------------------------------------------------
(* The movement decision: one step, scored over the cardinal neighbours.   *)

\* the penalty the movement phase applies to the unit (bot.py 1773-1786)
PenaltyOf(sp) ==
  LET base == improved_2biomass_penalty(map_type, tick_count, cached_my_tile_count,
                                        Width * Height, Len(world.spawners), is_stagnant,
                                        cached_nutrient_generation)
  IN IF PioneerNow(sp) THEN Max2(20, base \div 3) ELSE base

\* the score the movement phase gives the unit for the cell c
ScoreOf(sp, c) ==
  move_score(world, sp, c, sp.id \in defender_ids, sp.id \in hunter_ids,
             LaneTargetOf(sp), PenaltyOf(sp), calculate_my_center(world))

\* the cells within n steps of the unit through cells it may enter
RECURSIVE ReachFrom(_, _, _)
ReachFrom(sp, from, n) ==
  IF n = 0 THEN from
  ELSE ReachFrom(sp, from \cup {c \in AllCells : SafeNeighbour(sp, c)
                                   /\ \E f \in from : manhattan(f, c) = 1}, n - 1)

\* the number of steps from the cell a to the cell c through cells the unit may enter
StepsBetween(sp, a, c) ==
  CHOOSE n \in 0..(Width * Height) :
    /\ c \in ReachFrom(sp, {a}, n)
    /\ \A m \in 0..(n - 1) : c \notin ReachFrom(sp, {a}, m)

\* the least depth limit the specification gives the movement search (4 to 7)
SearchDepth == 4

\* the cells a traversal of that depth visits
SearchedCells(sp) == ReachFrom(sp, {sp.pos}, SearchDepth) \ {sp.pos}

BestSearched(sp) ==
  {c \in SearchedCells(sp) : \A o \in SearchedCells(sp) : ScoreOf(sp, c) >= ScoreOf(sp, o)}

DecidingPass(sp) ==
  IF /\ sp.biomass = 2 /\ ~PioneerNow(sp)
     /\ \E k \in 1..Len(DIRS) : move_allowed(world, sp, DIRS[k], 0)
  THEN 0 ELSE 1

----------------------------------------------------------------------------
(* Builder selection in the two building phases.                           *)

\* the first building phase has decided to build in this call
FirstBuildDecided ==
  LET act == actionable_spores(world)
  IN /\ Len(world.spawners) = 0
     /\ act # <<>>
     /\ should_build_first_spawner_v8(
          map_type, tick_count, Len(act),
          SetMax({0} \cup {act[i].biomass : i \in 1..Len(act)}), world.nextSpawnerCost)[1]

\* the second building phase has decided to build in this call
SecondBuildDecided ==
  /\ Len(world.spawners) = 1
  /\ actionable_spores(world) # <<>>
  /\ should_build_second(world.nutrients, cached_my_tile_count, Width * Height)

\* both building phases of the call have run within the time budget
BuildingDone ==
  /\ tick_count > 0
  /\ pc \notin {"build_first", "build_second"}
  /\ cut_at \notin {"build_first", "build_second"}

----------------------------------------------------------------------------
(* Function-level specification: select_best_site on drawn snapshots,      *)
(* candidate pools and arguments.  fn_in is the argument record, fn_out    *)
(* the site returned (NoPoint for None).                                   *)

SitePools ==
  { <<>>, TopTiles, Prefix(TopTiles, 3),
    << <<0, 0>> >>, << <<0, 0>>, <<1, 2>> >>,
    << <<3, 1>>, <<2, 1>> >>, << <<0, 2>>, <<3, 0>> >>, << <<3, 0>>, <<0, 2>> >> }

SiteArgs ==
  [pool : SitePools, builder_biomass : {3, 6}, is_second_spawner : BOOLEAN,
   tick : {1, 31}, is_emergency : BOOLEAN]

\* the state of a call on one of the given snapshots of a first tick, after the
\* prelude of get_next_move (bot.py 1909-2039), but for _planned_sites
InitCallTyped(snapshots, mtypes) ==
  /\ world \in snapshots
  /\ tick_count = world.tick
  /\ map_type \in mtypes
  /\ map_type_cache = Put(EmptyDict, <<Width, Height>>, map_type)
  /\ top_tiles_cache = TopTiles
  /\ first_spawner_tick = IF Len(world.spawners) > 0 THEN world.tick ELSE NoneInt
  /\ total_spore_count = Len(world.mySpores)
  /\ lane_targets_store = EmptyDict
  /\ lane_by_spore_id = EmptyDict
  /\ pos_hist_by_id = EmptyDict
  /\ last_territory_count = 0
  /\ stagnation_ticks = 0
  /\ cached_my_tile_count = Cardinality({c \in AllCells : world.ownershipGrid[c] = world.yourTeamId})
  /\ cached_nutrient_generation = 0
  /\ last_full_scan_tick = 0
  /\ threat_map = build_threat_map(enemy_biomass_at(world), Width, Height)
  /\ is_stagnant = FALSE
  /\ lane_targets = EmptyDict
  /\ used_spores = {}
  /\ used_spawners = {}
  /\ builder_ids = {}
  /\ hunter_ids = {}
  /\ defender_ids = {}
  /\ actions = <<>>
  /\ time_bound = NoTimeBound
  /\ cut_at = None
  /\ unchanged_since = 0

InitCallOn(snapshots) == InitCallTyped(snapshots, {"open_rush", "large"})

InitAtCall == InitCallOn(FirstSnapshots)

InitSite ==
  /\ InitAtCall
  /\ planned_sites = EmptyDict
  /\ pc = "site"
  /\ fn_in \in SiteArgs
  /\ fn_out = NoPoint

ApplySite ==
  /\ pc = "site"
  /\ fn_out' = select_best_site(fn_in.pool, world, fn_in.builder_biomass,
                                fn_in.is_second_spawner, fn_in.tick, fn_in.is_emergency)
  /\ pc' = "site_done"
  /\ UNCHANGED <<world, persistent, territory, locals, fn_in, unchanged_since>>

SpecSite == InitSite /\ [][ApplySite]_vars

\* the score select_best_site gave a cell of the pool
SiteScore(pt) ==
  score_spawner_site(pt, world, fn_in.builder_biomass, fn_in.is_second_spawner,
                     fn_in.tick, fn_in.is_emergency)

\* the positions of the pool that hold no spawner
FreeInPool == {i \in 1..Len(fn_in.pool) : fn_in.pool[i] \notin {world.spawners[k].pos : k \in 1..Len(world.spawners)}}

\* C16: select_best_site returns the cell of the largest score among the pool
\* cells that hold no spawner, the earliest of them in pool order on a tie,
\* whatever the threat, the enemy on the cell or the density around it; it
\* returns None only when no pool cell is free of a spawner.
C16_BestFreeSite ==
  pc = "site_done" =>
    IF FreeInPool = {} THEN fn_out = NoPoint
    ELSE \E i \in FreeInPool :
           /\ fn_out = fn_in.pool[i]
           /\ \A j \in FreeInPool :
                \/ SiteScore(fn_in.pool[j]) < SiteScore(fn_in.pool[i])
                \/ (SiteScore(fn_in.pool[j]) = SiteScore(fn_in.pool[i]) /\ i <= j)

\* the site returned holds an enemy unit under a threat the builder cannot
\* survive, and the pool had another cell free of a spawner
C16_Witness ==
  /\ pc = "site_done"
  /\ fn_out # NoPoint
  /\ DictSeqGet(enemy_biomass_at(world), fn_out, 0) > 0
  /\ ThreatAt(fn_out) >= fn_in.builder_biomass
  /\ Cardinality(FreeInPool) >= 2

----------------------------------------------------------------------------
(* Specification of the two building phases of one call, entered with any  *)
(* site locked by an earlier call: since that call the snapshot may have   *)
(* changed around the site in any way.                                     *)

LockedBefore ==
  {EmptyDict} \cup {Put(EmptyDict, k, c) : k \in {"first", "second"}, c \in AllCells}

InitLock ==
  /\ InitAtCall
  /\ planned_sites \in LockedBefore
  /\ pc = "build_first"
  /\ fn_in = planned_sites
  /\ fn_out = NoPoint

NextLock == BuildFirstPhase \/ BuildSecondPhase

SpecLock == InitLock /\ [][NextLock]_vars

\* this step is a building phase that attempts a build for the site named key
AttemptsBuild(key) ==
  /\ cut_at' = None
  /\ IF key = "first"
     THEN pc = "build_first" /\ FirstBuildDecided
     ELSE pc = "build_second" /\ SecondBuildDecided

\* no spawner stands on the cell and it holds no biomass on a tile that is not ours
SiteUnoccupied(c) ==
  /\ c \notin {world.spawners[k].pos : k \in 1..Len(world.spawners)}
  /\ ~(world.biomassGrid[c] # 0 /\ world.ownershipGrid[c] # world.yourTeamId)

StrongestUnit == SetMax({0} \cup {world.mySpores[k].biomass : k \in 1..Len(world.mySpores)})

----------------------------------------------------------------------------
(* Specification of the production phase of one call (bot.py 2056-2067),   *)
(* entered at a tick of each row of the size table, with any pool of       *)
(* nutrients, with or without stagnation.                                  *)

ProdTicks == {1, 150, 400, 700}

ProdNutrients == {0, 5, 9, 10, 13, 16, 30, 40, 1000}

ProdSnapshots ==
  { [w EXCEPT !.tick = t, !.nutrients = n] :
      <<w, t, n>> \in {x \in FirstSnapshots : Len(x.spawners) > 0} \X ProdTicks \X ProdNutrients }

InitProd ==
  /\ world \in ProdSnapshots
  /\ tick_count = world.tick
  /\ map_type = "open_rush"
  /\ map_type_cache = Put(EmptyDict, <<Width, Height>>, map_type)
  /\ top_tiles_cache = TopTiles
  /\ planned_sites = EmptyDict
  /\ first_spawner_tick = 1
  \* after the first tick the unit count of the first snapshot may differ from the
  \* snapshot's: 5 stands for a game that began with more than 3 units
  /\ total_spore_count \in {Len(world.mySpores)} \cup (IF world.tick > 1 THEN {5} ELSE {})
  /\ lane_targets_store = EmptyDict
  /\ lane_by_spore_id = EmptyDict
  /\ pos_hist_by_id = EmptyDict
  /\ last_territory_count = 0
  /\ stagnation_ticks = 0
  /\ cached_my_tile_count = Cardinality({c \in AllCells : world.ownershipGrid[c] = world.yourTeamId})
  /\ cached_nutrient_generation = 0
  /\ last_full_scan_tick = 0
  /\ threat_map = build_threat_map(enemy_biomass_at(world), Width, Height)
  /\ is_stagnant \in BOOLEAN
  /\ lane_targets = EmptyDict
  /\ used_spores = {}
  /\ used_spawners = {}
  /\ builder_ids = {}
  /\ hunter_ids = {}
  /\ defender_ids = {}
  /\ actions = <<>>
  /\ time_bound = NoTimeBound
  /\ cut_at = None
  /\ unchanged_since = 0
  /\ pc = "produce"
  /\ fn_in = <<>>
  /\ fn_out = <<>>

SpecProd == InitProd /\ [][ProducePhase]_vars

Produced == ActionsOf({"produce"})

\* the nutrients spent by the produce actions before action j
SpentBefore(j) == SumOver({i \in Produced : i < j}, [i \in Produced |-> actions[i].biomass])

\* the spawner a produce action names
SpawnerOf(id) == world.spawners[CHOOSE k \in 1..Len(world.spawners) : world.spawners[k].id = id]

\* the reserve of _manage_spawner_production (bot.py 1333-1337)
Reserve ==
  IF (IF total_spore_count \in {NoneInt, 0} THEN 3 ELSE total_spore_count) <= 3 THEN 2
  ELSE IF Len(world.spawners) >= 2 THEN 3 ELSE 4

\* C18: at every point of the production loop the nutrients left, the snapshot's
\* nutrients minus the biomass of the produce actions so far, are at least the
\* reserve (2, 3 or 4) once anything was produced, and a pool that starts below the
\* reserve is not spent from; a spawner whose size cannot be afforded emits nothing.
C18_ReserveKept ==
  \A j \in Produced :
    /\ world.nutrients - SpentBefore(j) - actions[j].biomass >= Reserve
    /\ actions[j].biomass >= 2
    /\ actions[j].biomass <= world.nutrients - SpentBefore(j)

\* the first of two spawners has produced and the second was skipped, because its
\* size would have taken the pool below the reserve
C18_Witness ==
  /\ pc = "combat"
  /\ Len(world.spawners) = 2
  /\ Produced = {1}
  /\ actions[1].id = world.spawners[1].id
  /\ world.nutrients - actions[1].biomass >= Reserve
  /\ world.nutrients - 2 * actions[1].biomass < Reserve

\* the local threat of the spawner of produce action j
LocalThreatOf(j) == local_threat_at(SpawnerOf(actions[j].id).pos, world, Width, Height)

\* C19 as stated: whatever the tick, the unit count, the nutrients and the
\* stagnation state, a produce action for a spawner with positive local threat has
\* biomass of at least that threat + 3.
C19_ThreatFloorAlways ==
  \A j \in Produced : LocalThreatOf(j) > 0 => actions[j].biomass >= LocalThreatOf(j) + 3

\* the rows of the size table that read the threat: from tick 400 on, outside the
\* stagnation row (stagnant with 30 nutrients or more left) and, from tick 700 on,
\* with fewer than 1000 nutrients left
ThreatRow(j) ==
  /\ tick_count >= 400
  /\ ~(is_stagnant /\ world.nutrients - SpentBefore(j) >= 30)
  /\ tick_count < 700 \/ world.nutrients - SpentBefore(j) < 1000

\* C19 amended: in the rows of the size table that read the threat, a produce
\* action for a spawner with positive local threat has biomass of exactly
\* max(threat + 3, 8); in the other rows the size does not depend on the threat.
C19_ThreatFloorLate ==
  \A j \in Produced :
    (LocalThreatOf(j) > 0 /\ ThreatRow(j))
      => actions[j].biomass = Max2(LocalThreatOf(j) + 3, 8)

\* at tick 400 a spawner next to an enemy of biomass 9 has produced a unit of 12
C19_Witness ==
  /\ pc = "combat"
  /\ \E j \in Produced : ThreatRow(j) /\ LocalThreatOf(j) = 9 /\ actions[j].biomass = 12

----------------------------------------------------------------------------
(* Specification of the combat phase of one call (bot.py 2069-2095), on    *)
(* the snapshots of a first tick and on snapshots in which one unit is the *)
(* nearest attacker of two targets and another unit of a third, or in      *)
(* which the best-ranked opportunity has a profit of 20.                   *)

HuntLayouts == { << <<<<0, 1>>, 7>>, <<<<2, 1>>, 7>> >> }

HuntedLayouts ==
  { << <<<<3, 1>>, 4>>, <<<<1, 2>>, 5>> >>,
    << <<<<1, 2>>, 5>> >>,
    << <<<<3, 1>>, 2>>, <<<<3, 2>>, 2>> >> }

HuntSnapshots ==
  { MkWorld(1, u, e, n, t, << <<0, 0>> >>, 0, c) :
      <<u, e, n, t, c>> \in HuntLayouts \X HuntedLayouts \X NeutralLayouts \X TrailLayouts
                             \X SpawnerCosts }

InitHunt ==
  /\ InitCallOn(FirstSnapshots \cup HuntSnapshots)
  /\ planned_sites = EmptyDict
  /\ pc = "combat"
  /\ fn_in = <<>>
  /\ fn_out = <<>>

SpecHunt == InitHunt /\ [][CombatPhase]_vars

\* the opportunities the combat phase retained: no hunter was in used_spores
\* when the phase began
Opportunities == find_combat_targets(world, builder_ids, used_spores \ hunter_ids)

Profitable(i) == Opportunities[i][2] > ProfitFloor

\* an earlier opportunity of the same attacker is profitable, so that the attacker
\* has its action when opportunity i is reached
AttackerAssigned(i) ==
  \E j \in 1..(i - 1) : Opportunities[j][3] = Opportunities[i][3] /\ Profitable(j)

\* the move-to actions of the combat phase, as pairs <<attacker, target>>
Hunts == {<<actions[i].id, actions[i].pos>> : i \in {k \in ActionsOf({"moveto"}) : actions[k].by = "combat"}}

\* C20 as stated: with time to spare, every retained opportunity with a profit
\* above 20 whose attacker has no action yet gets its move-to, whatever was
\* skipped before it.
C20_EveryProfitableCommitted ==
  CombatDone =>
    \A i \in 1..Len(Opportunities) :
      (Profitable(i) /\ ~AttackerAssigned(i))
        => <<Opportunities[i][3], Opportunities[i][1]>> \in Hunts

\* the first opportunity whose attacker already has its action
FirstRepeat ==
  LET rep == {i \in 1..Len(Opportunities) : AttackerAssigned(i)}
  IN IF rep = {} THEN Len(Opportunities) + 1 ELSE CHOOSE i \in rep : \A j \in rep : i <= j

\* what the loop of bot.py 2079-2090 commits, C20's statement failing on the
\* `break` of line 2081: with time to spare, the move-to actions of the combat
\* phase are those of the profitable opportunities that come before the first
\* opportunity whose attacker already has its action; an opportunity of low
\* profit is passed over, but the first one with an assigned attacker ends the loop.
C20_CommittedUntilRepeat ==
  CombatDone =>
    Hunts = {<<Opportunities[i][3], Opportunities[i][1]>> :
               i \in {k \in 1..(FirstRepeat - 1) : Profitable(k)}}

\* a profitable opportunity whose attacker has no action was not committed,
\* because it comes after an opportunity whose attacker was assigned
C20_Witness ==
  /\ CombatDone
  /\ Hunts # {}
  /\ \E i \in 1..Len(Opportunities) :
       /\ i > FirstRepeat
       /\ Profitable(i)
       /\ ~AttackerAssigned(i)
       /\ Opportunities[i][3] \notin hunter_ids

----------------------------------------------------------------------------
(* Specification of the combat phase on snapshots in which both spawners   *)
(* are under direct threat (bot.py 2092-2095, 1455-1516).                  *)

GuardLayouts ==
  { << <<<<1, 0>>, 6>>, <<<<3, 0>>, 6>> >>,
    << <<<<1, 0>>, 6>>, <<<<2, 2>>, 6>> >>,
    << <<<<1, 0>>, 6>>, <<<<3, 0>>, 3>> >> }

RaiderLayouts == { << <<<<0, 1>>, 2>>, <<<<1, 1>>, 2>> >>, << <<<<0, 1>>, 2>> >> }

DefendSnapshots ==
  { MkWorld(1, u, e, <<>>, t, << <<0, 0>>, <<1, 2>> >>, 0, c) :
      <<u, e, t, c>> \in GuardLayouts \X RaiderLayouts \X {{}} \X SpawnerCosts }

InitDefend ==
  /\ InitCallOn(FirstSnapshots \cup DefendSnapshots)
  /\ planned_sites = EmptyDict
  /\ pc = "combat"
  /\ fn_in = <<>>
  /\ fn_out = <<>>

SpecDefend == InitDefend /\ [][CombatPhase]_vars

\* the spawners under direct threat
Threatened == {k \in 1..Len(world.spawners) : ThreatAt(world.spawners[k].pos) > 0}

\* the units that _assign_defenders may take for spawner k: actionable, neither
\* builder nor hunter nor used, of biomass >= direct threat + 2
EligibleFor(k) ==
  {j \in 1..Len(world.mySpores) :
     /\ world.mySpores[j].biomass >= 2
     /\ world.mySpores[j].id \notin builder_ids \cup hunter_ids \cup used_spores
     /\ world.mySpores[j].biomass >= ThreatAt(world.spawners[k].pos) + 2}

\* C21: after the combat phase, when k spawners are under direct threat and k or
\* more units are eligible for every one of them, k distinct units are defenders.
C21_DistinctDefenders ==
  (CombatDone /\ Threatened # {}) =>
    LET eligible == {j \in 1..Len(world.mySpores) : \A k \in Threatened : j \in EligibleFor(k)}
    IN Cardinality(eligible) >= Cardinality(Threatened)
         => Cardinality(defender_ids) >= Cardinality(Threatened)

----------------------------------------------------------------------------
(* Defenders at rest (bot.py 1746, 1788-1792).                             *)

\* the movement phase has run to its end within the time budget
MovementDone == tick_count > 0 /\ pc = "wait" /\ cut_at = None /\ time_bound = NoTimeBound

\* the threatened spawners for which _assign_defenders took the unit: no unit is
\* in used_spores before the combat phase but the builders
DefendedBy(id) ==
  {k \in Threatened :
     LET spt == world.spawners[k].pos
         strong == SelectSeq(actionable_spores(world),
                             LAMBDA sp : /\ sp.id \notin builder_ids \cup hunter_ids
                                         /\ sp.biomass >= ThreatAt(spt) + 2)
     IN strong # <<>> /\ nearest_to(strong, spt).id = id}

\* the unit stands on a cell without threat and has no enemy beside it
Unthreatened(sp) ==
  ThreatAt(sp.pos) = 0 /\ adjacent_enemy_max(sp.pos, enemy_biomass_at(world)) = 0

\* C22: after the movement phase, a defender within Manhattan distance 2 of a
\* spawner it was assigned to, on a cell without threat and with no adjacent
\* enemy, has no action of the movement phase, whichever spawner that is.
C22_DefenderRests ==
  MovementDone =>
    \A j \in 1..Len(world.mySpores) :
      LET sp == world.mySpores[j]
      IN (/\ sp.id \in defender_ids
          /\ Unthreatened(sp)
          /\ \E k \in DefendedBy(sp.id) : manhattan(sp.pos, world.spawners[k].pos) <= 2)
         => \A i \in 1..Len(actions) : actions[i].by = "move" => actions[i].id # sp.id

----------------------------------------------------------------------------
(* The steps of the emergency merge (bot.py 1617-1716).                    *)

Endangered(sp) ==
  \/ ThreatAt(sp.pos) > 0
  \/ adjacent_enemy_max(sp.pos, enemy_biomass_at(world)) > 0
  \/ sp.biomass <= 2

MergeSteps == {i \in ActionsOf({"move"}) : actions[i].by = "merge"}

\* the step is safe for the mover and keeps a unit of biomass 2 on the trail
SafeMergeStep(sp, npt) ==
  /\ npt \in AllCells
  /\ ThreatAt(npt) < sp.biomass
  /\ sp.biomass = 2 => IsTrail(npt)

\* C23 as stated: every step of the emergency merge moves an endangered unit
\* strictly closer to a unit of ours within Manhattan distance 3 whose biomass is
\* strictly greater than the mover's, onto a cell whose threat is below the
\* mover's biomass, and a unit of biomass 2 steps onto the trail only.
C23_MergeTowardStronger ==
  \A i \in MergeSteps :
    LET sp == SporeOf(actions[i].id)
        npt == TargetOf(actions[i])
    IN /\ Endangered(sp)
       /\ SafeMergeStep(sp, npt)
       /\ \E j \in 1..Len(world.mySpores) :
            LET b == world.mySpores[j]
            IN /\ b.id # sp.id
               /\ manhattan(sp.pos, b.pos) <= 3
               /\ b.biomass > sp.biomass
               /\ manhattan(npt, b.pos) < manhattan(sp.pos, b.pos)

\* C23 amended: the step brings the mover strictly closer to the nearest unit of
\* ours that is not a builder and stands 1 to 3 cells away, whatever that unit's
\* biomass; the safety of the step and the trail rule are as stated.
C23_MergeTowardNearest ==
  \A i \in MergeSteps :
    LET sp == SporeOf(actions[i].id)
        npt == TargetOf(actions[i])
        near == {j \in 1..Len(world.mySpores) :
                   /\ world.mySpores[j].id # sp.id
                   /\ world.mySpores[j].id \notin builder_ids
                   /\ manhattan(sp.pos, world.mySpores[j].pos) \in 1..3}
    IN /\ Endangered(sp)
       /\ SafeMergeStep(sp, npt)
       /\ \E j \in near :
            /\ \A k \in near : manhattan(sp.pos, world.mySpores[j].pos)
                                   <= manhattan(sp.pos, world.mySpores[k].pos)
            /\ manhattan(npt, world.mySpores[j].pos) < manhattan(sp.pos, world.mySpores[j].pos)

\* a unit has stepped towards a unit of ours that is not stronger than itself
C23_Witness ==
  \E i \in MergeSteps :
    LET sp == SporeOf(actions[i].id)
    IN \A j \in 1..Len(world.mySpores) :
         (world.mySpores[j].id # sp.id /\ manhattan(sp.pos, world.mySpores[j].pos) <= 3)
           => world.mySpores[j].biomass <= sp.biomass

----------------------------------------------------------------------------
(* Specification of the lane targets over the calls of a game (bot.py      *)
(* 1988-2009, 96-163): at each call the snapshot, and with it the threat,  *)
(* the ownership and the centre of the team, may be any of a few, and the  *)
(* territory may or may not be stagnant.                                   *)

LaneMaxTick == 24

\* four snapshots: a quiet one, two with an enemy of biomass 9 on either side, and
\* one in which the team has moved and owns a trail
LaneSnapshots ==
  { MkWorld(1, << <<<<3, 0>>, 6>>, <<<<0, 1>>, 2>> >>, <<>>, <<>>, {}, <<>>, 0, 4),
    MkWorld(1, << <<<<3, 0>>, 6>>, <<<<0, 1>>, 2>> >>,
            << <<<<2, 1>>, 9>>, <<<<0, 2>>, 1>> >>, <<>>, {}, <<>>, 0, 4),
    MkWorld(1, << <<<<3, 0>>, 6>>, <<<<0, 1>>, 2>> >>,
            << <<<<3, 1>>, 4>>, <<<<3, 2>>, 9>> >>, <<>>, {}, <<>>, 0, 4),
    MkWorld(1, << <<<<3, 2>>, 3>>, <<<<1, 0>>, 6>>, <<<<0, 2>>, 1>> >>, <<>>, <<>>,
            {<<1, 1>>, <<0, 0>>, <<2, 2>>}, <<>>, 0, 4) }

InitLane ==
  /\ InitCallOn(LaneSnapshots)
  /\ planned_sites = EmptyDict
  /\ pc = "lane"
  /\ fn_in = <<>>
  /\ fn_out = <<>>

\* the prelude of one call, as far as the lane targets go
LaneCall ==
  /\ pc = "lane"
  /\ tick_count < LaneMaxTick
  /\ \E w \in LaneSnapshots, stag \in BOOLEAN :
       LET tm == build_threat_map(enemy_biomass_at(w), Width, Height)
           picked == pick_lane_targets(lane_targets_store, top_tiles_cache,
                                       calculate_my_center(w), tick_count + 1, stag, w, tm)
           with_lanes == map_type \in {"medium", "large"} \/ stag
       IN /\ tick_count' = tick_count + 1
          /\ world' = [w EXCEPT !.tick = tick_count + 1]
          /\ threat_map' = tm
          /\ is_stagnant' = stag
          /\ lane_targets' = IF with_lanes THEN picked[1] ELSE EmptyDict
          /\ lane_targets_store' = IF with_lanes THEN picked[2] ELSE lane_targets_store
  /\ UNCHANGED <<pc, map_type, map_type_cache, top_tiles_cache, planned_sites,
                 first_spawner_tick, total_spore_count, lane_by_spore_id, pos_hist_by_id,
                 territory, used_spores, used_spawners, builder_ids, hunter_ids,
                 defender_ids, actions, time_bound, cut_at, fnvars, unchanged_since>>

SpecLane == InitLane /\ [][LaneCall]_vars

\* this call runs pick_lane_targets
PicksLanes == map_type \in {"medium", "large"} \/ is_stagnant

\* the time-to-live of a target locked by this call
LaneTtl == IF is_stagnant THEN 18 ELSE 10

LaneExcluded(pt) ==
  \/ ThreatAt(pt) >= 8
  \/ (world.ownershipGrid[pt] = world.yourTeamId
        /\ manhattan(pt, calculate_my_center(world)) <= 3)

\* C26 as stated: pick_lane_targets never returns a target that its selection
\* rules exclude at the current tick (threat >= 8, or owned by the team within
\* radius 3 of the centre).
C26_NoStaleLaneTarget ==
  PicksLanes => \A l \in DOMAIN lane_targets : ~LaneExcluded(lane_targets[l])

\* C26 amended: the targets that a call selects pass its selection rules; a
\* target stored by an earlier call is returned until it expires, even when the
\* rules now exclude it.
C26_FreshLaneTargetPasses ==
  [][ PicksLanes' =>
        \A l \in DOMAIN lane_targets_store' :
          (l \notin DOMAIN lane_targets_store \/ lane_targets_store'[l] # lane_targets_store[l])
            => /\ lane_targets'[l] = lane_targets_store'[l][1]
               /\ ~(Get(threat_map', lane_targets'[l], 0) >= 8)
               /\ ~(world'.ownershipGrid[lane_targets'[l]] = world'.yourTeamId
                      /\ manhattan(lane_targets'[l], calculate_my_center(world')) <= 3) ]_vars

\* in the middle of its lifetime a stored target is returned although the
\* selection rules now exclude its cell
C26_Witness ==
  /\ PicksLanes
  /\ \E l \in DOMAIN lane_targets :
       /\ lane_targets_store[l][2] \in (tick_count + 1)..(tick_count + 9)
       /\ lane_targets[l] = lane_targets_store[l][1]
       /\ LaneExcluded(lane_targets[l])

----------------------------------------------------------------------------
(* Specification of the lane assignments over the calls of a game (bot.py  *)
(* 77-94, 1760-1764): between two ticks any unit may ask for its lane from *)
(* any position, with the centre of the team anywhere.                     *)

AssignMaxTick == 28

AssignIds == {"s1", "s2"}

AssignPoints == {<<0, 0>>, <<3, 2>>}

AssignCenters == {<<1, 1>>, <<0, 0>>}

InitAssign ==
  /\ InitCallOn(OutpostSnapshots)
  /\ map_type = "large"
  /\ planned_sites = EmptyDict
  /\ pc = "assign"
  /\ fn_in = <<>>
  /\ fn_out = ""

\* the call of assign_lane in _manage_spore_movement; fn_in holds its arguments
\* and fn_out the lane it returns
AssignCall ==
  /\ pc = "assign"
  /\ \E id \in AssignIds, pt \in AssignPoints, center \in AssignCenters :
       LET assigned == assign_lane(lane_by_spore_id, id, pt, center, tick_count)
       IN /\ fn_in' = <<id, pt, center>>
          /\ fn_out' = assigned[1]
          /\ lane_by_spore_id' = assigned[2]
  /\ UNCHANGED <<pc, world, tick_count, map_type, map_type_cache, top_tiles_cache,
                 planned_sites, first_spawner_tick, total_spore_count, lane_targets_store,
                 pos_hist_by_id, territory, locals, unchanged_since>>

\* the next call of get_next_move begins (bot.py 1913)
AssignTick ==
  /\ pc = "assign"
  /\ tick_count < AssignMaxTick
  /\ tick_count' = tick_count + 1
  /\ fn_in' = <<>>
  /\ fn_out' = ""
  /\ UNCHANGED <<pc, world, map_type, map_type_cache, top_tiles_cache, planned_sites,
                 first_spawner_tick, total_spore_count, lane_targets_store, lane_by_spore_id,
                 pos_hist_by_id, territory, locals, unchanged_since>>

SpecAssign == InitAssign /\ [][AssignCall \/ AssignTick]_vars

\* C25: a unit's lane assigned at tick t is returned, and its lock left as it
\* is, by every call of assign_lane for that unit up to tick t + 25, whatever the
\* unit's position and the centre; a call after that returns the quadrant of the
\* unit's present position about the centre and locks it from the present tick;
\* the assignments of the other units are untouched.
C25_LaneAssignmentLocked ==
  [][ fn_in' # <<>> =>
        LET id == fn_in'[1]
            made == lane_by_spore_id[id][2] - 25
        IN /\ IF id \in DOMAIN lane_by_spore_id /\ tick_count <= made + 25
              THEN /\ fn_out' = lane_by_spore_id[id][1]
                   /\ lane_by_spore_id' = lane_by_spore_id
              ELSE /\ fn_out' = lane_of(fn_in'[2], fn_in'[3])
                   /\ lane_by_spore_id'[id] = <<fn_out', tick_count + 25>>
           /\ \A other \in DOMAIN lane_by_spore_id \ {id} :
                lane_by_spore_id'[other] = lane_by_spore_id[other] ]_vars

\* on the last tick of its lock a unit is given its stored lane, although its
\* position now lies in another quadrant
C25_Witness ==
  /\ fn_in # <<>>
  /\ lane_by_spore_id[fn_in[1]][2] = tick_count
  /\ fn_out = lane_by_spore_id[fn_in[1]][1]
  /\ fn_out # lane_of(fn_in[2], fn_in[3])

\* the largest enemy biomass on the cardinal neighbours of a cell, as
\* _assign_defenders reads it
AdjacentThreat(c) == adjacent_enemy_max(c, enemy_biomass_at(world))

\* C29: the threat map at every cell of the map is at least the largest enemy
\* biomass on the cell's cardinal neighbours; so no spawner has an adjacent
\* threat without a direct threat, and every defender the combat phase assigns
\* meets the direct branch's demand (biomass >= threat + 2) for a spawner under
\* direct threat.
C29_ThreatCoversNeighbours ==
  /\ \A c \in AllCells : ThreatAt(c) >= AdjacentThreat(c)
  /\ \A k \in 1..Len(world.spawners) :
       AdjacentThreat(world.spawners[k].pos) > 0 => ThreatAt(world.spawners[k].pos) > 0
  /\ CombatDone =>
       \A j \in 1..Len(world.mySpores) :
         world.mySpores[j].id \in defender_ids =>
           \E k \in Threatened :
             world.mySpores[j].biomass >= ThreatAt(world.spawners[k].pos) + 2

\* a spawner with an enemy beside it has been given a defender
C29_Witness ==
  /\ CombatDone
  /\ defender_ids # {}
  /\ \E k \in 1..Len(world.spawners) : AdjacentThreat(world.spawners[k].pos) > 0

----------------------------------------------------------------------------
(* The position history across calls whose snapshots differ: units move,   *)
(* leave and arrive between ticks (bot.py 897-916, called at 2031 before   *)
(* the first test of the time budget at 2042).                             *)

HistMaxTick == 6

\* where each unit may stand in a snapshot; NoPoint: it is not in the snapshot
HistPlaces ==
  [s1 |-> {NoPoint, <<0, 0>>, <<1, 0>>},
   s2 |-> {NoPoint, <<3, 2>>, <<3, 1>>},
   s3 |-> {NoPoint, <<2, 1>>}]

HistWorld(place, c) ==
  LET ids == SelectSeq(MyIds, LAMBDA id : place[id] # NoPoint)
      layout == [i \in 1..Len(ids) |-> <<place[ids[i]], 3>>]
      w == MkWorld(1, layout, <<>>, <<>>, {}, <<>>, 0, c)
  IN [w EXCEPT !.mySpores = MkSpores(ids, layout, MyTeamId),
               !.spores = MkSpores(ids, layout, MyTeamId)]

HistSnapshots ==
  { HistWorld(place, c) :
      place \in [s1 : HistPlaces.s1, s2 : HistPlaces.s2, s3 : HistPlaces.s3],
      c \in SpawnerCosts }

InitHist ==
  /\ InitCallOn(OutpostSnapshots)
  /\ planned_sites = EmptyDict
  /\ pc = "hist"
  /\ fn_in = {}
  /\ fn_out = ""

\* a call of get_next_move as far as the history goes: nothing after line 2031
\* writes it, and nothing before it returns; fn_in keeps the ids the history
\* held before the call
HistCall ==
  /\ pc = "hist"
  /\ tick_count < HistMaxTick
  /\ \E w \in HistSnapshots :
       /\ tick_count' = tick_count + 1
       /\ world' = [w EXCEPT !.tick = tick_count + 1]
       /\ pos_hist_by_id' = update_position_history(pos_hist_by_id, w.mySpores)
  /\ fn_in' = DOMAIN pos_hist_by_id
  /\ fn_out' = "called"
  /\ UNCHANGED <<pc, map_type, map_type_cache, top_tiles_cache, planned_sites,
                 first_spawner_tick, total_spore_count, lane_targets_store, lane_by_spore_id,
                 territory, locals, unchanged_since>>

SpecHist == InitHist /\ [][HistCall]_vars

\* C27: after every call of get_next_move the position history has an entry for
\* exactly the friendly units of that call's snapshot, each entry holds between
\* one and four positions and ends with the unit's present position.
C27_HistoryMatchesUnits ==
  fn_out = "called" =>
    /\ DOMAIN pos_hist_by_id = {world.mySpores[i].id : i \in 1..Len(world.mySpores)}
    /\ \A i \in 1..Len(world.mySpores) :
         LET hist == pos_hist_by_id[world.mySpores[i].id]
         IN /\ Len(hist) \in 1..4
            /\ hist[Len(hist)] = world.mySpores[i].pos

\* a unit that had an entry has left the snapshot, while another unit's entry is
\* full and records a move
C27_Witness ==
  /\ fn_out = "called"
  /\ fn_in \ DOMAIN pos_hist_by_id # {}
  /\ \E id \in DOMAIN pos_hist_by_id :
       /\ Len(pos_hist_by_id[id]) = 4
       /\ pos_hist_by_id[id][1] # pos_hist_by_id[id][4]
       /\ tick_count > 4

----------------------------------------------------------------------------
(* The decision of should_build_first_spawner_v8 as _build_first_spawner   *)
(* uses it (bot.py 1031-1156), on calls at the ticks around the tier       *)
(* boundaries, for every map label and for costs below, at and above the   *)
(* units' biomass.                                                         *)

BuildTicks == {1, 5, 6, 7, 8, 9, 12, 13, 15, 16}

BuildCosts == {0, 1, 2, 3, 4, 5, 6, 7, 8}

BuildLayouts == UnitLayouts \cup { << <<<<1, 1>>, 1>> >>, << <<<<2, 2>>, 2>> >> }

BuildSnapshots ==
  { MkWorld(t, u, e, <<>>, {}, <<>>, 0, c) :
      t \in BuildTicks, u \in BuildLayouts, e \in EnemyLayouts, c \in BuildCosts }

InitBuild ==
  /\ InitCallTyped(BuildSnapshots, MapTypes)
  /\ planned_sites = EmptyDict
  /\ pc = "build_first"
  /\ fn_in = <<>>
  /\ fn_out = <<>>

SpecBuild == InitBuild /\ [][BuildFirstPhase]_vars

\* the decision _build_first_spawner obtains on the present snapshot
BuildDecision ==
  LET act == actionable_spores(world)
  IN should_build_first_spawner_v8(
       map_type, tick_count, Len(act),
       SetMax({0} \cup {act[i].biomass : i \in 1..Len(act)}), world.nextSpawnerCost)

\* the first-spawner phase has run to its end on a team without a spawner
FirstBuildRan == pc = "build_second" /\ cut_at = None /\ Len(world.spawners) = 0

\* C28: the triple of should_build_first_spawner_v8 is consistent: with
\* should-build there is an actionable unit and next_spawner_cost <= the biomass
\* needed <= the largest actionable biomass; without it the triple is
\* (false, 0, false).  So once a site is locked, the first builder pass finds a
\* unit of at least the biomass needed, the builder is given an action, and it is
\* never at the site with less biomass than the cost.
C28_ConsistentDecision ==
  FirstBuildRan =>
    LET act == actionable_spores(world)
        top == SetMax({0} \cup {act[i].biomass : i \in 1..Len(act)})
        locked == Get(planned_sites, "first", NoPoint)
    IN /\ BuildDecision[1] =>
            /\ Len(act) >= 1
            /\ world.nextSpawnerCost <= BuildDecision[2]
            /\ BuildDecision[2] <= top
       /\ ~BuildDecision[1] => BuildDecision = <<FALSE, 0, FALSE>>
       /\ (BuildDecision[1] /\ locked # NoPoint) =>
            /\ select_builder_progressive(locked, act, BuildDecision[2], {}, {},
                                          BuildDecision[3]) # NoSpore
            /\ \E i \in 1..Len(act) :
                 /\ builder_ids = {act[i].id}
                 /\ act[i].biomass >= BuildDecision[2]
                 /\ \E k \in 1..Len(actions) : actions[k].id = act[i].id
                 /\ act[i].pos = locked => act[i].biomass >= world.nextSpawnerCost

\* a builder standing on the locked site creates the spawner in the forced tier
C28_Witness ==
  /\ FirstBuildRan
  /\ BuildDecision = <<TRUE, world.nextSpawnerCost, TRUE>>
  /\ \E k \in 1..Len(actions) : actions[k].kind = "create"

----------------------------------------------------------------------------
(* One call of get_next_move up to its split phase (bot.py 2042-2107), on  *)
(* the snapshots of the first tick and on teams of seventeen and eighteen  *)
(* units.  _attempt_splits reads of the team's size only the length of     *)
(* my_team.spores; the eighteen units stand on the cells of a 4 x 3 map,   *)
(* several to a cell.                                                      *)

CrowdIds ==
  <<"c1", "c2", "c3", "c4", "c5", "c6", "c7", "c8", "c9",
    "c10", "c11", "c12", "c13", "c14", "c15", "c16", "c17", "c18">>

\* the cells the small units of a crowd stand on: the two upper rows
CrowdCells == << <<0, 0>>, <<1, 0>>, <<2, 0>>, <<3, 0>>, <<0, 1>>, <<1, 1>>, <<2, 1>> >>

\* n units: one of biomass 8 at (2,2), beside the empty cell (3,2), and n - 1 of
\* biomass 2 on the upper rows
CrowdLayout(n) ==
  [i \in 1..n |-> IF i = 1 THEN << <<2, 2>>, 8 >>
                  ELSE << CrowdCells[((i - 2) % Len(CrowdCells)) + 1], 2 >>]

CrowdWorld(n, c) ==
  LET units == CrowdLayout(n)
      spawner_cells == << <<0, 0>> >>
  IN [tick |-> 1,
      yourTeamId |-> MyTeamId,
      ownershipGrid |-> [cell \in AllCells |->
                           IF cell \in CellsOf(units) THEN MyTeamId ELSE 0],
      biomassGrid |-> [cell \in AllCells |-> BiomassOn(units, cell)],
      spores |-> MkSpores(CrowdIds, units, MyTeamId),
      mySpores |-> MkSpores(CrowdIds, units, MyTeamId),
      spawners |-> [i \in 1..Len(spawner_cells) |-> [id |-> SpawnerIds[i], pos |-> spawner_cells[i]]],
      nutrients |-> 0,
      nextSpawnerCost |-> c]

CrowdSnapshots == { CrowdWorld(n, c) : n \in {17, 18}, c \in SpawnerCosts }

InitSplit ==
  /\ InitCallOn(FirstSnapshots \cup SoloSnapshots \cup CrowdSnapshots)
  /\ planned_sites = EmptyDict
  /\ pc = "build_first"
  /\ fn_in = <<>>
  /\ fn_out = <<>>

NextSplit ==
  \/ BuildFirstPhase
  \/ BuildSecondPhase
  \/ ProducePhase
  \/ CombatPhase
  \/ SplitPhase

SpecSplit == InitSplit /\ [][NextSplit]_vars

\* the places in a list of actions that hold a split
SplitsIn(acts) == {i \in 1..Len(acts) : acts[i].kind = "split"}

\* C30: a call emits at most one split, and none in survival mode or with
\* eighteen or more units; a split is emitted for a unit of biomass >= 6 that is
\* neither a builder nor used, it detaches floor(biomass / 2), which is at least
\* 2 and less than the biomass, towards an in-bounds cardinal neighbour that
\* holds no biomass and whose threat is below the unit's biomass.
C30_SplitRestrained ==
  [][ /\ Cardinality(SplitsIn(actions')) <= 1
      /\ (survival_mode(world) \/ Len(world.mySpores) >= 18) => SplitsIn(actions') = {}
      /\ \A i \in SplitsIn(actions') \ SplitsIn(actions) :
           LET a == actions'[i]
               sp == SporeOf(a.id)
               npt == Step(sp.pos, a.dir)
           IN /\ sp.biomass >= 6
              /\ a.id \notin builder_ids
              /\ a.id \notin used_spores
              /\ a.biomass = sp.biomass \div 2
              /\ 2 <= a.biomass /\ a.biomass < sp.biomass
              /\ \E k \in 1..Len(DIRS) : a.dir = DIRS[k]
              /\ npt \in AllCells
              /\ world.biomassGrid[npt] = 0
              /\ ThreatAt(npt) < sp.biomass ]_vars

\* a team of seventeen units has split its unit of biomass 8
C30_Witness ==
  /\ Len(world.mySpores) = 17
  /\ \E i \in SplitsIn(actions) : SporeOf(actions[i].id).biomass = 8 /\ actions[i].biomass = 4

====
